---- MODULE Spec2Model ----
(***************************************************************************)
(* Model of the schema-inference and secure-execution subsystem of         *)
(* mcp-skill-server: the entry-command validator, the command builder,     *)
(* schema discovery and the run_skill / get_skill handlers.                *)
(*                                                                         *)
(* Python strings are TLA+ strings; TLC evaluates Len, SubSeq and \o on    *)
(* them, so the text functions are computed character by character.        *)
(***************************************************************************)
EXTENDS Integers, Sequences, FiniteSets, TLC

(***************************************************************************)
(* String helpers (str methods used by the source).                        *)
(***************************************************************************)
\* s[a-1:b] of Python (1-based, inclusive), empty outside the string
Slice(s, a, b) ==
    LET lo == IF a < 1 THEN 1 ELSE a
        hi == IF b > Len(s) THEN Len(s) ELSE b
    IN  IF lo > hi THEN "" ELSE SubSeq(s, lo, hi)

\* the character at index i, empty outside the string
Ch(s, i) == Slice(s, i, i)

StartsWith(s, p) == Len(s) >= Len(p) /\ Slice(s, 1, Len(p)) = p

EndsWith(s, p) == Len(s) >= Len(p) /\ Slice(s, Len(s) - Len(p) + 1, Len(s)) = p

\* c is a one-character string; cs is a string used as a set of characters
InChars(c, cs) == \E k \in 1..Len(cs) : Ch(cs, k) = c

\* index of the last character of the longest run of characters of cs that
\* starts at i (i - 1 when the run is empty)
RunEnd(s, i, cs) ==
    IF i > Len(s) THEN i - 1
    ELSE CHOOSE e \in (i - 1)..Len(s) :
             /\ \A k \in i..e : InChars(Ch(s, k), cs)
             /\ (e = Len(s) \/ ~InChars(Ch(s, e + 1), cs))

\* the same for the characters not in cs
RunEndNot(s, i, cs) ==
    IF i > Len(s) THEN i - 1
    ELSE CHOOSE e \in (i - 1)..Len(s) :
             /\ \A k \in i..e : ~InChars(Ch(s, k), cs)
             /\ (e = Len(s) \/ InChars(Ch(s, e + 1), cs))

RECURSIVE SplitFrom(_, _, _)
SplitFrom(s, sep, i) ==
    LET e == RunEndNot(s, i, sep) IN
    IF e >= Len(s) THEN <<Slice(s, i, e)>>
    ELSE <<Slice(s, i, e)>> \o SplitFrom(s, sep, e + 2)

\* str.split(sep) for a one-character separator
StrSplit(s, sep) == SplitFrom(s, sep, 1)

RECURSIVE JoinFrom(_, _, _)
JoinFrom(parts, r, k) ==
    IF k = Len(parts) THEN parts[k] ELSE parts[k] \o r \o JoinFrom(parts, r, k + 1)

\* str.replace(c, r) for a one-character pattern c
StrReplace(s, c, r) == JoinFrom(StrSplit(s, c), r, 1)

(***************************************************************************)
(* shlex.split (POSIX mode, whitespace_split, no comment characters) and   *)
(* shlex.quote, as the standard library computes them.                     *)
(***************************************************************************)
ShlexWhitespace == " \t\r\n"
ShlexSpecial == ShlexWhitespace \o "'\"\\"

\* index of the first character of cs at or after i (Len(s) + 1 if there is none)
FirstOf(s, i, cs) == RunEndNot(s, i, cs) + 1

ShlexError == [ok |-> FALSE, toks |-> <<>>]

\* the tokenizer, one step per run of characters: white space, a plain run, a
\* single-quoted section, a section inside double quotes, an escaped character.
\* inTok says that a token is being built (it may be empty after '' or "").
RECURSIVE ShlexScan(_, _, _, _, _, _)
ShlexScan(s, i, inDouble, inTok, tok, toks) ==
    LET c == Ch(s, i) IN
    IF inDouble
    THEN LET k == FirstOf(s, i, "\"\\") IN
         IF k > Len(s) \/ (Ch(s, k) = "\\" /\ k = Len(s)) THEN ShlexError
         ELSE IF Ch(s, k) = "\""
         THEN ShlexScan(s, k + 1, FALSE, TRUE, tok \o Slice(s, i, k - 1), toks)
         ELSE ShlexScan(s, k + 2, TRUE, TRUE,
                        tok \o Slice(s, i, k - 1)
                            \o (IF InChars(Ch(s, k + 1), "\"\\") THEN "" ELSE "\\")
                            \o Ch(s, k + 1),
                        toks)
    ELSE IF i > Len(s)
    THEN [ok |-> TRUE, toks |-> IF inTok THEN Append(toks, tok) ELSE toks]
    ELSE IF InChars(c, ShlexWhitespace)
    THEN ShlexScan(s, RunEnd(s, i, ShlexWhitespace) + 1, FALSE, FALSE, "",
                   IF inTok THEN Append(toks, tok) ELSE toks)
    ELSE IF c = "'"
    THEN LET k == FirstOf(s, i + 1, "'") IN
         IF k > Len(s) THEN ShlexError
         ELSE ShlexScan(s, k + 1, FALSE, TRUE, tok \o Slice(s, i + 1, k - 1), toks)
    ELSE IF c = "\""
    THEN ShlexScan(s, i + 1, TRUE, TRUE, tok, toks)
    ELSE IF c = "\\"
    THEN IF i = Len(s) THEN ShlexError
         ELSE ShlexScan(s, i + 2, FALSE, TRUE, tok \o Ch(s, i + 1), toks)
    ELSE ShlexScan(s, RunEndNot(s, i, ShlexSpecial) + 1, FALSE, TRUE,
                   tok \o Slice(s, i, RunEndNot(s, i, ShlexSpecial)), toks)

\* ok = FALSE stands for the ValueError of an unclosed quote or a trailing backslash
ShlexSplit(s) == ShlexScan(s, 1, FALSE, FALSE, "", <<>>)

ShlexSafeChars ==
    "abcdefghijklmnopqrstuvwxyzABCDEFGHIJKLMNOPQRSTUVWXYZ0123456789_@%+=:,./-"

\* quoting that leaves an embedded single quote as it is
ShlexQuoteVerbatim(s) ==
    IF s = "" THEN "''"
    ELSE IF \A k \in 1..Len(s) : InChars(Ch(s, k), ShlexSafeChars) THEN s
    ELSE "'" \o s \o "'"

ShlexQuote(s) ==
    IF s = "" THEN "''"
    ELSE IF \A k \in 1..Len(s) : InChars(Ch(s, k), ShlexSafeChars) THEN s
    ELSE "'" \o StrReplace(s, "'", "'\"'\"'") \o "'"

(***************************************************************************)
(* The file system the validator looks at.  A canonical path is the tuple  *)
(* of its components below the root; fs.files and fs.dirs hold the         *)
(* canonical paths that exist, fs.links the symbolic links (location and   *)
(* canonical target).                                                      *)
(***************************************************************************)
SkillDirectory == <<"srv", "skills", "demo">>

IsLink(fs, p) == \E l \in fs.links : l.at = p

LinkTarget(fs, p) == (CHOOSE l \in fs.links : l.at = p).to

Parent(p) == IF p = <<>> THEN <<>> ELSE SubSeq(p, 1, Len(p) - 1)

RECURSIVE ResolveFrom(_, _, _)
ResolveFrom(fs, cur, rest) ==
    IF rest = <<>> THEN cur
    ELSE LET c == Head(rest) IN
         IF c = "" \/ c = "." THEN ResolveFrom(fs, cur, Tail(rest))
         ELSE IF c = ".." THEN ResolveFrom(fs, Parent(cur), Tail(rest))
         ELSE IF IsLink(fs, Append(cur, c))
              THEN ResolveFrom(fs, LinkTarget(fs, Append(cur, c)), Tail(rest))
              ELSE ResolveFrom(fs, Append(cur, c), Tail(rest))

\* (directory / rel).resolve(): `..` and symbolic links followed, left to right
Resolve(fs, directory, rel) ==
    ResolveFrom(fs, <<>>, (IF StartsWith(rel, "/") THEN <<>> ELSE directory) \o StrSplit(rel, "/"))

\* Path.relative_to(base) succeeds: base is a prefix of p
IsRelativeTo(p, base) == Len(p) >= Len(base) /\ SubSeq(p, 1, Len(base)) = base

PathExists(fs, p) == p \in fs.files \/ p \in fs.dirs

IsAbs(part) == StartsWith(part, "/")

(***************************************************************************)
(* SkillExecutor._validate_entry_command.  The result is "ok" or the       *)
(* reason of the ValueError raised.                                        *)
(***************************************************************************)
ALLOWED_RUNTIMES ==
    <<"python", "python3", "uv run python", "uv run", "node", "bash", "sh", "./">>

ReasonRuntime == "Entry command must start with allowed runtime"
ReasonAbsolute == "Absolute paths not allowed"
ReasonEscape == "Script path escapes skill directory"
ReasonNotFound == "Script not found"
ReasonQuote == "No closing quotation"

HasAllowedPrefix(entry_command) ==
    \E k \in 1..Len(ALLOWED_RUNTIMES) : StartsWith(entry_command, ALLOWED_RUNTIMES[k])

IsScriptPart(part) ==
    \/ EndsWith(part, ".py") \/ EndsWith(part, ".sh") \/ EndsWith(part, ".js")
    \/ StartsWith(part, "./")

\* the for-loop over parts: "abs" at an absolute part, "script" at the first
\* script part (the loop breaks there), "none" when the parts are exhausted
RECURSIVE ScanParts(_, _)
ScanParts(parts, k) ==
    IF k > Len(parts) THEN [kind |-> "none", at |-> 0]
    ELSE IF IsAbs(parts[k]) THEN [kind |-> "abs", at |-> k]
    ELSE IF IsScriptPart(parts[k]) THEN [kind |-> "script", at |-> k]
    ELSE ScanParts(parts, k + 1)

\* the existence check placed before the containment check
CheckScriptExistsFirst(fs, skill_directory, script_path) ==
    IF script_path = "" THEN "ok"
    ELSE LET full_path == Resolve(fs, skill_directory, script_path) IN
         IF ~PathExists(fs, full_path) THEN ReasonNotFound
         ELSE IF ~IsRelativeTo(full_path, Resolve(fs, skill_directory, "")) THEN ReasonEscape
         ELSE "ok"

\* the containment check alone
CheckScriptContainmentOnly(fs, skill_directory, script_path) ==
    IF script_path = "" THEN "ok"
    ELSE IF ~IsRelativeTo(Resolve(fs, skill_directory, script_path),
                          Resolve(fs, skill_directory, ""))
    THEN ReasonEscape
    ELSE "ok"

CheckScript(fs, skill_directory, script_path) ==
    IF script_path = "" THEN "ok"
    ELSE LET full_path == Resolve(fs, skill_directory, script_path) IN
         IF ~IsRelativeTo(full_path, Resolve(fs, skill_directory, "")) THEN ReasonEscape
         ELSE IF ~PathExists(fs, full_path) THEN ReasonNotFound
         ELSE "ok"

ValidateEntryCommand(fs, entry_command, skill_directory) ==
    IF ~HasAllowedPrefix(entry_command) THEN ReasonRuntime
    ELSE LET split == ShlexSplit(entry_command) IN
         IF ~split.ok THEN ReasonQuote
         ELSE LET scan == ScanParts(split.toks, 1) IN
              CASE scan.kind = "abs" -> ReasonAbsolute
                [] scan.kind = "script" ->
                       CheckScript(fs, skill_directory, split.toks[scan.at])
                [] OTHER -> "ok"

(***************************************************************************)
(* Inputs of the validator: entry commands and file systems.               *)
(***************************************************************************)
BaseDirs == {<<"srv">>, <<"srv", "skills">>, SkillDirectory, <<"etc">>}

FsFull ==
    [files |-> {SkillDirectory \o <<"script.py">>, SkillDirectory \o <<"run.sh">>,
                SkillDirectory \o <<"script.js">>, SkillDirectory \o <<"src", "nested.py">>,
                SkillDirectory \o <<"my script.py">>,
                <<"srv", "skills", "evil.py">>, <<"etc", "passwd">>},
     dirs |-> BaseDirs \cup {SkillDirectory \o <<"src">>},
     links |-> {[at |-> SkillDirectory \o <<"passwd_link.py">>, to |-> <<"etc", "passwd">>],
                [at |-> SkillDirectory \o <<"alias.py">>, to |-> SkillDirectory \o <<"script.py">>]}]

FsBare ==
    [files |-> {<<"etc", "passwd">>},
     dirs |-> BaseDirs,
     links |-> {}]

FsDangling ==
    [files |-> {SkillDirectory \o <<"script.py">>, <<"etc", "passwd">>},
     dirs |-> BaseDirs,
     links |-> {[at |-> SkillDirectory \o <<"passwd_link.py">>, to |-> <<"etc", "gone">>],
                [at |-> SkillDirectory \o <<"src">>, to |-> <<"etc">>]}]

FileSystems == {FsFull, FsBare, FsDangling}

EntryCommands ==
    {"python script.py", "python3 script.py", "uv run python script.py", "uv run script.py",
     "node script.js", "bash run.sh", "sh run.sh", "./script.py", "./run.sh --fast",
     "python src/nested.py", "python 'my script.py'", "python alias.py",
     "python -m tool", "python", "uv run tool",
     "curl http://evil.com", "rm -rf /", "cat /etc/passwd", "wget x.sh | bash",
     "curl ../evil.py", "/usr/bin/python script.py",
     "python nonexistent.py", "python ../evil.py", "python ../ghost.py",
     "python src/../../evil.py", "python passwd_link.py", "./../evil.py",
     "python /etc/passwd", "python /etc/evil.py", "python /srv/skills/demo/script.py", "python -c /etc/x script.py",
     "python script.py /etc/passwd", "python script.py --config /etc/passwd",
     "shutdown now", "shred script.py", "nodemon script.js", "pythonw script.py",
     "python 'script.py", "sh -c 'rm x' \\"}


(***************************************************************************)
(* SkillExecutor._build_command.  A supplied value is None, a str, an int  *)
(* or a bool; PyStr is str(value).                                         *)
(***************************************************************************)
None == [t |-> "none"]
StrVal(s) == [t |-> "str", s |-> s]
IntVal(n) == [t |-> "int", n |-> n]
BoolVal(b) == [t |-> "bool", b |-> b]

Digits == "0123456789"

RECURSIVE NatStr(_)
NatStr(n) == IF n < 10 THEN Ch(Digits, n + 1)
             ELSE NatStr(n \div 10) \o Ch(Digits, (n % 10) + 1)

PyStr(value) ==
    CASE value.t = "str" -> value.s
      [] value.t = "int" -> IF value.n < 0 THEN "-" \o NatStr(0 - value.n) ELSE NatStr(value.n)
      [] value.t = "bool" -> IF value.b THEN "True" ELSE "False"
      [] OTHER -> "None"

\* dict.get(name): None for a missing key
DictGet(parameters, name) ==
    IF name \in DOMAIN parameters THEN parameters[name] ELSE None

RECURSIVE BuildFrom(_, _, _, _)
BuildFrom(bash_command, parameters_schema, parameters, k) ==
    IF k > Len(parameters_schema) THEN bash_command
    ELSE LET param == parameters_schema[k]
             value == DictGet(parameters, param.name)
         IN  IF value.t # "none"
             THEN BuildFrom(bash_command \o " --" \o StrReplace(param.name, "_", "-")
                                \o " " \o ShlexQuote(PyStr(value)),
                            parameters_schema, parameters, k + 1)
             ELSE BuildFrom(bash_command, parameters_schema, parameters, k + 1)

BuildCommand(template, parameters_schema, parameters) ==
    BuildFrom(template, parameters_schema, parameters, 1)

(***************************************************************************)
(* Text helpers for the help-text parser: character classes of the         *)
(* regular expressions, str.lower, str.strip, substring search.            *)
(***************************************************************************)
SpaceChars == " \t\n\r\f"
UpperChars == "ABCDEFGHIJKLMNOPQRSTUVWXYZ"
LowerChars == "abcdefghijklmnopqrstuvwxyz"
WordChars == UpperChars \o LowerChars \o Digits \o "_"
FlagChars == WordChars \o "-"
MetavarChars == UpperChars \o "_"

LowerCh(c) ==
    IF InChars(c, UpperChars)
    THEN Ch(LowerChars, CHOOSE k \in 1..Len(UpperChars) : Ch(UpperChars, k) = c)
    ELSE c

\* s[i:i+len(pat)].lower() == pat, for a lower-case pat
LowerEqualsAt(s, i, pat) ==
    /\ i + Len(pat) - 1 <= Len(s)
    /\ \A k \in 1..Len(pat) : LowerCh(Ch(s, i + k - 1)) = Ch(pat, k)

\* pat in s.lower(), for a lower-case pat
LowerContains(s, pat) == \E i \in 1..(Len(s) - Len(pat) + 1) : LowerEqualsAt(s, i, pat)

LastNonSpace(s) ==
    IF \A k \in 1..Len(s) : InChars(Ch(s, k), SpaceChars) THEN 0
    ELSE CHOOSE e \in 1..Len(s) :
             /\ ~InChars(Ch(s, e), SpaceChars)
             /\ \A k \in (e + 1)..Len(s) : InChars(Ch(s, k), SpaceChars)

Strip(s) == Slice(s, RunEnd(s, 1, SpaceChars) + 1, LastNonSpace(s))

(***************************************************************************)
(* parse_subcommands.  The result keeps the insertion order of the dict:   *)
(* names is the sequence of keys, desc the mapping.                        *)
(***************************************************************************)
\* re.search(r"\{([^}]+)\}", line)
HasChoices(line) ==
    \E i \in 1..Len(line) :
        /\ Ch(line, i) = "{"
        /\ i + 1 <= Len(line) /\ Ch(line, i + 1) # "}"
        /\ \E j \in (i + 2)..Len(line) : Ch(line, j) = "}"

\* re.match(r"\s{4,}(\S+)\s{2,}(.+)", line): the groups, desc already stripped
SubcommandLine(line) ==
    LET w == RunEnd(line, 1, SpaceChars)
        n == RunEndNot(line, w + 1, SpaceChars)
        r == RunEnd(line, n + 1, SpaceChars)
        rest == Slice(line, r + 1, Len(line))
    IN  IF w >= 4 /\ n > w /\ r - n >= 2 /\ (rest # "" \/ r - n >= 3)
        THEN [matched |-> TRUE, name |-> Slice(line, w + 1, n), desc |-> Strip(rest)]
        ELSE [matched |-> FALSE, name |-> "", desc |-> ""]

NoSubcommands == [names |-> <<>>, desc |-> <<>>]

PutSubcommand(acc, name, desc) ==
    [names |-> IF name \in DOMAIN acc.desc THEN acc.names ELSE Append(acc.names, name),
     desc |-> [n \in DOMAIN acc.desc \cup {name} |->
                   IF n = name THEN desc ELSE acc.desc[n]]]

\* a loop that captures entries without waiting for the choice list
RECURSIVE SubcommandLoopAnyLine(_, _, _, _, _)
SubcommandLoopAnyLine(lines, k, in_positional_section, found_choices, acc) ==
    IF k > Len(lines) THEN acc
    ELSE LET line == lines[k] IN
         IF LowerContains(line, "positional arguments:")
         THEN SubcommandLoopAnyLine(lines, k + 1, TRUE, found_choices, acc)
         ELSE IF in_positional_section /\ line # "" /\ ~StartsWith(line, " ")
         THEN acc
         ELSE IF in_positional_section /\ SubcommandLine(line).matched
         THEN SubcommandLoopAnyLine(lines, k + 1, in_positional_section, found_choices,
                                    PutSubcommand(acc, SubcommandLine(line).name,
                                                  SubcommandLine(line).desc))
         ELSE SubcommandLoopAnyLine(lines, k + 1, in_positional_section, found_choices, acc)

RECURSIVE SubcommandLoop(_, _, _, _, _)
SubcommandLoop(lines, k, in_positional_section, found_choices, acc) ==
    IF k > Len(lines) THEN acc
    ELSE LET line == lines[k] IN
         IF LowerContains(line, "positional arguments:")
         THEN SubcommandLoop(lines, k + 1, TRUE, found_choices, acc)
         ELSE IF in_positional_section /\ line # "" /\ ~StartsWith(line, " ")
         THEN acc
         ELSE IF in_positional_section /\ ~found_choices /\ HasChoices(line)
         THEN SubcommandLoop(lines, k + 1, in_positional_section, TRUE, acc)
         ELSE IF in_positional_section /\ found_choices /\ SubcommandLine(line).matched
         THEN SubcommandLoop(lines, k + 1, in_positional_section, found_choices,
                             PutSubcommand(acc, SubcommandLine(line).name,
                                           SubcommandLine(line).desc))
         ELSE SubcommandLoop(lines, k + 1, in_positional_section, found_choices, acc)

ParseSubcommands(help_text) ==
    SubcommandLoop(StrSplit(help_text, "\n"), 1, FALSE, FALSE, NoSubcommands)

(***************************************************************************)
(* infer_type.  A missing metavar (None) is the empty string.              *)
(***************************************************************************)
\* any(word in s.lower() for word in words)
LowerContainsAny(s, words) == \E k \in 1..Len(words) : LowerContains(s, words[k])

\* the placeholder rules in the other order
InferTypeStringFirst(metavar, description) ==
    IF metavar = "" THEN "bool"
    ELSE IF LowerContainsAny(metavar, <<"file", "path", "name", "dir", "url", "string">>)
    THEN "string"
    ELSE IF LowerContainsAny(metavar, <<"year", "count", "num", "id", "port", "size">>)
    THEN "int"
    ELSE IF LowerContainsAny(description, <<"integer", "number">>) THEN "int"
    ELSE IF LowerContainsAny(description, <<"float", "decimal">>) THEN "float"
    ELSE IF LowerContainsAny(description, <<"true", "false", "enable", "disable">>)
    THEN "bool"
    ELSE "string"

InferType(metavar, description) ==
    IF metavar = "" THEN "bool"
    ELSE IF LowerContainsAny(metavar, <<"year", "count", "num", "id", "port", "size">>)
    THEN "int"
    ELSE IF LowerContainsAny(metavar, <<"file", "path", "name", "dir", "url", "string">>)
    THEN "string"
    ELSE IF LowerContainsAny(description, <<"integer", "number">>) THEN "int"
    ELSE IF LowerContainsAny(description, <<"float", "decimal">>) THEN "float"
    ELSE IF LowerContainsAny(description, <<"true", "false", "enable", "disable">>)
    THEN "bool"
    ELSE "string"

(***************************************************************************)
(* parse_parameters: the regular expressions, then the scanning loop.      *)
(***************************************************************************)
\* end of a match of r"\[--[\w-]+(?:\s+[A-Z_]+)?\]" starting at i, or 0
OptionalGroupEnd(s, i) ==
    LET f == RunEnd(s, i + 3, FlagChars)
        w == RunEnd(s, f + 1, SpaceChars)
        m == RunEnd(s, w + 1, MetavarChars)
    IN  IF Slice(s, i, i + 2) = "[--" /\ f >= i + 3
        THEN IF Ch(s, f + 1) = "]" THEN f + 1
             ELSE IF w > f /\ m > w /\ Ch(s, m + 1) = "]" THEN m + 1
             ELSE 0
        ELSE 0

\* re.sub(r"\[--[\w-]+(?:\s+[A-Z_]+)?\]", "", usage_line)
RECURSIVE StripOptionalGroups(_, _)
StripOptionalGroups(s, i) ==
    IF \E k \in i..Len(s) : OptionalGroupEnd(s, k) > 0
    THEN LET k == CHOOSE k \in i..Len(s) :
                      /\ OptionalGroupEnd(s, k) > 0
                      /\ \A n \in i..(k - 1) : OptionalGroupEnd(s, n) = 0
         IN  Slice(s, i, k - 1) \o StripOptionalGroups(s, OptionalGroupEnd(s, k) + 1)
    ELSE Slice(s, i, Len(s))

\* first index of the name matched by r"--?([\w-]+)" at a dash at i
FlagNameStart(s, i) ==
    IF Ch(s, i + 1) = "-" /\ RunEnd(s, i + 2, FlagChars) >= i + 2 THEN i + 2 ELSE i + 1

\* re.findall(r"--?([\w-]+)", s), as a set
FlagAt(s, i) ==
    Ch(s, i) = "-" /\ RunEnd(s, FlagNameStart(s, i), FlagChars) >= FlagNameStart(s, i)

RECURSIVE FindFlags(_, _)
FindFlags(s, i) ==
    IF \E k \in i..Len(s) : FlagAt(s, k)
    THEN LET k == CHOOSE k \in i..Len(s) : FlagAt(s, k) /\ \A n \in i..(k - 1) : ~FlagAt(s, n)
             e == RunEnd(s, FlagNameStart(s, k), FlagChars)
         IN  {Slice(s, FlagNameStart(s, k), e)} \cup FindFlags(s, e + 1)
    ELSE {}

RequiredFromUsage(usage_line) ==
    IF StartsWith(usage_line, "usage:")
    THEN {StrReplace(param, "-", "_") :
              param \in FindFlags(StripOptionalGroups(usage_line, 1), 1) \ {"h", "help"}}
    ELSE {}

\* re.match(r"\s+(?:-\w,\s+)?--?([\w-]+)(?:\s+([A-Z_]+))?(?:\s|$)", line)
OptionLine(line) ==
    LET w == RunEnd(line, 1, SpaceChars)
        p == w + 1
        sw == RunEnd(line, p + 3, SpaceChars)
        short == /\ Ch(line, p) = "-" /\ p + 1 <= Len(line) /\ InChars(Ch(line, p + 1), WordChars)
                 /\ Ch(line, p + 2) = "," /\ sw >= p + 3
        q == IF short THEN sw + 1 ELSE p
        st == FlagNameStart(line, q)
        e == RunEnd(line, st, FlagChars)
        mw == RunEnd(line, e + 1, SpaceChars)
        m == RunEnd(line, mw + 1, MetavarChars)
    IN  IF /\ w >= 1 /\ Ch(line, q) = "-" /\ e >= st
           /\ (e = Len(line) \/ InChars(Ch(line, e + 1), SpaceChars))
        THEN [matched |-> TRUE, name |-> Slice(line, st, e),
              metavar |-> IF /\ mw > e /\ m > mw
                             /\ (m = Len(line) \/ InChars(Ch(line, m + 1), SpaceChars))
                          THEN Slice(line, mw + 1, m) ELSE ""]
        ELSE [matched |-> FALSE, name |-> "", metavar |-> ""]

\* a match of r"--[\w-]+(?:\s+[A-Z_]+)?\s{2,}(.+)" starting at i
DescriptionAt(line, i) ==
    LET f == RunEnd(line, i + 2, FlagChars)
        a == RunEnd(line, f + 1, SpaceChars)
        m == RunEnd(line, a + 1, MetavarChars)
        b == RunEnd(line, m + 1, SpaceChars)
        restB == Slice(line, b + 1, Len(line))
        restA == Slice(line, a + 1, Len(line))
    IN  IF Slice(line, i, i + 1) = "--" /\ f >= i + 2 /\ a > f
        THEN IF m > a /\ b - m >= 2 /\ (restB # "" \/ b - m >= 3)
             THEN [matched |-> TRUE, desc |-> Strip(restB)]
             ELSE IF a - f >= 2 /\ (restA # "" \/ a - f >= 3)
             THEN [matched |-> TRUE, desc |-> Strip(restA)]
             ELSE [matched |-> FALSE, desc |-> ""]
        ELSE [matched |-> FALSE, desc |-> ""]

\* re.search of the same pattern: the leftmost match
SameLineDesc(line) ==
    IF \E i \in 1..Len(line) : DescriptionAt(line, i).matched
    THEN DescriptionAt(line, CHOOSE i \in 1..Len(line) :
                                 /\ DescriptionAt(line, i).matched
                                 /\ \A k \in 1..(i - 1) : ~DescriptionAt(line, k).matched)
    ELSE [matched |-> FALSE, desc |-> ""]

ContinuationIndent == "          "

\* the inner while loop: first index after the continuation lines that follow i
RECURSIVE ContinuationEnd(_, _)
ContinuationEnd(lines, j) ==
    IF j <= Len(lines) /\ StartsWith(lines[j], ContinuationIndent)
    THEN ContinuationEnd(lines, j + 1) ELSE j

RECURSIVE JoinContinuation(_, _, _)
JoinContinuation(lines, from, to) ==
    IF from >= to THEN ""
    ELSE Strip(lines[from]) \o " " \o JoinContinuation(lines, from + 1, to)

\* re.sub(r"\(required\)", "", description, flags=re.IGNORECASE)
RECURSIVE RemoveRequired(_, _)
RemoveRequired(s, i) ==
    IF \E k \in i..Len(s) : LowerEqualsAt(s, k, "(required)")
    THEN LET k == CHOOSE k \in i..Len(s) :
                      /\ LowerEqualsAt(s, k, "(required)")
                      /\ \A n \in i..(k - 1) : ~LowerEqualsAt(s, n, "(required)")
         IN  Slice(s, i, k - 1) \o RemoveRequired(s, k + 10)
    ELSE Slice(s, i, Len(s))

SkillParameter(name, required, type, description) ==
    [name |-> name, required |-> required, type |-> type, description |-> description]

\* the description of the option at line i: the same-line text, or the
\* continuation lines joined
RawDescription(lines, i, same) ==
    IF same.matched THEN same.desc
    ELSE Strip(JoinContinuation(lines, i + 1, ContinuationEnd(lines, i + 1)))

CleanDescription(raw) ==
    IF LowerContains(raw, "(required)") THEN Strip(RemoveRequired(raw, 1)) ELSE raw

OptionParameter(param_name, metavar, required_params, raw, description) ==
    SkillParameter(param_name,
                   param_name \in required_params \/ LowerContains(raw, "(required)"),
                   InferType(metavar, description), description)

\* one option line that yields a parameter: the parameter, and the new value of j
\* (the same-line branch leaves j as it was)
ParseOption(lines, i, required_params, j, m, same, raw) ==
    [param |-> OptionParameter(StrReplace(m.name, "-", "_"), m.metavar, required_params,
                               raw, CleanDescription(raw)),
     j |-> IF same.matched THEN j ELSE ContinuationEnd(lines, i + 1)]

\* the while loop; i and j are 1-based line indices, j = 0 while j is unbound.
\* ok = FALSE is the UnboundLocalError of `i = j` with j unbound.
RECURSIVE ParameterLoop(_, _, _, _, _, _)
RECURSIVE ParameterStep(_, _, _, _, _, _, _, _)
RECURSIVE ParameterAdd(_, _, _, _, _)

ParameterAdd(lines, required_params, seen, parameters, opt) ==
    IF opt.j = 0 THEN [ok |-> FALSE, params |-> <<>>]
    ELSE ParameterLoop(lines, required_params, opt.j, opt.j,
                       seen \cup {opt.param.name}, Append(parameters, opt.param))

\* a step whose duplicate check forgets to normalize the flag name
ParameterStepRawNames(lines, required_params, i, j, seen, parameters, m, same) ==
    IF ~m.matched \/ StrReplace(m.name, "-", "_") \in {"help", "h"} \/ m.name \in seen
    THEN ParameterLoop(lines, required_params, i + 1, j, seen, parameters)
    ELSE ParameterAdd(lines, required_params, seen, parameters,
                      ParseOption(lines, i, required_params, j, m, same,
                                  RawDescription(lines, i, same)))

ParameterStep(lines, required_params, i, j, seen, parameters, m, same) ==
    IF ~m.matched \/ StrReplace(m.name, "-", "_") \in {"help", "h"} \cup seen
    THEN ParameterLoop(lines, required_params, i + 1, j, seen, parameters)
    ELSE ParameterAdd(lines, required_params, seen, parameters,
                      ParseOption(lines, i, required_params, j, m, same,
                                  RawDescription(lines, i, same)))

ParameterLoop(lines, required_params, i, j, seen, parameters) ==
    IF i > Len(lines) THEN [ok |-> TRUE, params |-> parameters]
    ELSE ParameterStep(lines, required_params, i, j, seen, parameters,
                       OptionLine(lines[i]), SameLineDesc(lines[i]))

ParseParametersOf(lines) == ParameterLoop(lines, RequiredFromUsage(lines[1]), 1, 0, {}, <<>>)

ParseParameters(help_text) == ParseParametersOf(StrSplit(help_text, "\n"))

(***************************************************************************)
(* The state: one skill, its script, and the server handling one tool call *)
(* at a time.                                                              *)
(***************************************************************************)
VARIABLES
    entry,        \* Skill.entry_command
    fs,           \* the file system under the skill directory and around it
    script,       \* what the script prints for -h: [main, sub]
    commands,     \* Skill.commands: name -> SkillCommand
    cacheTime,    \* Skill._schema_cache_time: [set, at]
    clock,        \* datetime.now(), in hours
    pc,           \* where the handler of the current tool call stands
    req,          \* the tool call being handled: [tool, skill_name, command, parameters]
    refreshNow,   \* `now` of the running refresh_commands
    mainResult,   \* discover_commands: result of the top-level `<entry> -h`
    tasks,        \* discover_commands: the help invocations of the gather, by subcommand
    discovered,   \* how discover_commands ended in this call: "none", "returned", "raised"
    spawned,      \* the shell processes started while handling this call: [kind, cmd]
    handled,      \* number of tool calls received
    reply,        \* what the latest tool call returned
    verdict,      \* result of a direct _validate_entry_command call
    build,        \* a direct _build_command call: [template, schema, parameters, out, done]
    heap,         \* the dict objects that hold command mappings, by object id
    current,      \* Skill.commands of the shared skill: the id of a dict object
    published,    \* the ids Skill.commands has held so far
    handlers,     \* overlapping calls on the shared skill, by handler
    disk,         \* the paths that exist in and around the skill directory
    execs,        \* the execute calls of the executor, by execution
    output_handler, \* SkillExecutor.output_handler, as create_server sets it
    parsed,       \* a direct call of a help-text parser: [fn, args, out, done]
    pipes,        \* one child process, its two pipes and their readers
    helps,        \* a direct discover_commands call and the child processes it started
    scan          \* the scanning loop of one parse_parameters call, statement by statement

vars == <<entry, fs, script, commands, cacheTime, clock, pc, req, refreshNow, mainResult,
          tasks, discovered, spawned, handled, reply, verdict, build,
          heap, current, published, handlers, disk, execs, output_handler, parsed, pipes,
          helps, scan>>

skillVars == <<entry, fs, script>>
overlapVars == <<heap, current, published, handlers>>
execVars == <<disk, execs, output_handler>>
parseVars == <<parsed>>
pipeVars == <<pipes>>
helpVars == <<helps>>
scanVars == <<scan>>
serverVars == <<commands, cacheTime, clock, pc, req, refreshNow, mainResult, tasks,
                discovered, spawned, handled, reply>>

MaxRequests == 2
MaxClock == 2
SchemaTtl == 1

NoCommands == <<>>
NoTasks == <<>>
NoRequest ==
    [tool |-> "none", skill_name |-> "", command |-> "", parameters |-> <<>>, force |-> FALSE]
NoBuild == [template |-> "", schema |-> <<>>, parameters |-> <<>>, out |-> "", done |-> FALSE]

SkillCommand(name, description, bash_template, parameters) ==
    [name |-> name, description |-> description, bash_template |-> bash_template,
     parameters |-> parameters]

(***************************************************************************)
(* Scripts: the help text printed for `-h` and for `<subcommand> -h`.      *)
(***************************************************************************)
HelpSingle ==
    "usage: s [-h] --input INPUT [--name NAME]\n\noptions:\n  -h, --help\n  --input INPUT\n          Input file\n  --name NAME\n"

HelpArgparse ==
    "usage: script.py [-h] [--name NAME]\n\noptions:\n  -h, --help   show this help message and exit\n  --name NAME  Name to greet\n"

HelpMulti ==
    "usage: s [-h] {run,list,sync} ...\n\npositional arguments:\n  {run,list,sync}\n    run     Run it\n    list    List items\n    sync    Sync\n\noptions:\n  -h, --help  show this help\n"

HelpRun == "usage: s run [-h] --input INPUT\n\noptions:\n  -h, --help\n  --input INPUT\n          Input file\n"

HelpList == "usage: s list [-h]\n\noptions:\n  -h, --help  show this help\n"

HelpSync == "usage: s sync [-h] [--dry-run]\n\noptions:\n  -h, --help  show this help\n  --dry-run   Do nothing\n"

HelpDefaultSub ==
    "usage: s [-h] {default,run} ...\n\npositional arguments:\n  {default,run}\n    default  The usual\n    run      Run it\n"

Scripts ==
    {[main |-> HelpSingle, sub |-> <<>>],
     [main |-> HelpArgparse, sub |-> <<>>],
     [main |-> "hello", sub |-> <<>>],
     [main |-> HelpMulti,
      sub |-> [n \in {"run", "list", "sync"} |->
                  CASE n = "run" -> HelpRun [] n = "list" -> HelpList [] OTHER -> HelpSync]],
     [main |-> HelpDefaultSub,
      sub |-> [n \in {"default", "run"} |-> IF n = "run" THEN HelpRun ELSE HelpList]]}

\* every stdout a help invocation can have: the help texts of the scripts, and
\* the empty output of an invocation that failed
HelpTexts == {""} \cup UNION {{s.main} \cup {s.sub[n] : n \in DOMAIN s.sub} : s \in Scripts}

\* parse_subcommands and parse_parameters of the help texts, computed once
SubcommandsOf == [t \in HelpTexts |-> ParseSubcommands(t)]
ParametersOf == [t \in HelpTexts |-> ParseParameters(t)]

SkillEntries ==
    {"python script.py", "curl http://evil.com", "python /etc/evil.py", "python ../evil.py",
     "python nonexistent.py", "shutdown now"}

SkillNames == {"demo"}

\* the tool calls get_skill and run_skill (they refresh with force = False), and
\* a direct call of skill.refresh_commands(force=True)
Requests ==
    {[tool |-> "get_skill", skill_name |-> n, command |-> "", parameters |-> <<>>,
      force |-> FALSE] : n \in {"demo", "other"}}
    \cup
    {[tool |-> "run_skill", skill_name |-> "demo", command |-> "default", parameters |-> p,
      force |-> FALSE] :
         p \in {<<>>, [n \in {"input"} |-> StrVal("a b")], [n \in {"input"} |-> None]}}
    \cup
    {[tool |-> "run_skill", skill_name |-> "demo", command |-> "run",
      parameters |-> [n \in {"input"} |-> StrVal("a b")], force |-> FALSE],
     [tool |-> "run_skill", skill_name |-> "demo", command |-> "", parameters |-> <<>>,
      force |-> FALSE],
     [tool |-> "refresh_commands", skill_name |-> "demo", command |-> "",
      parameters |-> <<>>, force |-> TRUE]}

(***************************************************************************)
(* Skill.refresh_commands, run_command and discover_commands.              *)
(***************************************************************************)
Pending == [status |-> "pending", returncode |-> 0, stdout |-> ""]
Running == [status |-> "running", returncode |-> 0, stdout |-> ""]
Result(returncode, stdout) == [status |-> "done", returncode |-> returncode, stdout |-> stdout]

Settled(t) == t.status = "done"

\* the three ways a help invocation that was started can end: exit 0 with the
\* help text, a non-zero exit, or the timeout (run_command then reports -1)
HelpOutcomes(text) == {Result(0, text), Result(1, ""), Result(-1, "")}

\* a refresh that also re-runs discovery when the cached mapping is empty
IsStaleOrEmpty(force) ==
    force \/ ~cacheTime.set \/ commands = <<>> \/ clock - cacheTime.at > SchemaTtl

IsStale(force) ==
    force \/ ~cacheTime.set \/ clock - cacheTime.at > SchemaTtl

Spawn(kind, cmd) == spawned \cup {[kind |-> kind, cmd |-> cmd]}

\* call_tool up to the first await: look the skill up, start refresh_commands
Request(r) ==
    /\ pc = "idle"
    /\ handled < MaxRequests
    /\ handled' = handled + 1
    /\ req' = r
    /\ IF r.skill_name \notin SkillNames
       THEN /\ reply' = [kind |-> "text", text |-> "Skill not found"]
            /\ UNCHANGED <<pc, refreshNow>>
       ELSE /\ reply' = [kind |-> "pending", text |-> ""]
            /\ refreshNow' = clock
            /\ pc' = IF IsStale(r.force) THEN "discover" ELSE "dispatch"
    /\ mainResult' = Pending
    /\ tasks' = NoTasks
    /\ discovered' = "none"
    /\ spawned' = {}
    /\ UNCHANGED <<commands, cacheTime, clock>>
    /\ UNCHANGED <<skillVars, parseVars, pipeVars, helpVars, scanVars, verdict, build, overlapVars, execVars>>

\* refresh_commands stores the mapping discover_commands returned
StoreCommands(found) ==
    /\ commands' = found
    /\ cacheTime' = [set |-> TRUE, at |-> refreshNow]
    /\ discovered' = "returned"
    /\ pc' = "dispatch"
    /\ UNCHANGED reply

\* an exception leaves discover_commands, refresh_commands and call_tool
RaiseFromDiscovery ==
    /\ discovered' = "raised"
    /\ pc' = "idle"
    /\ reply' = [kind |-> "exception", text |-> "UnboundLocalError"]
    /\ UNCHANGED <<commands, cacheTime>>

\* only a positive exit code counts as a failure
HelpFailedExitCode(result) == result.returncode > 0

HelpFailed(result) == result.returncode # 0

\* discover_commands after the top-level help has ended with result
AfterMainHelp(result) ==
    /\ mainResult' = result
    /\ IF HelpFailed(result)
       THEN StoreCommands(NoCommands) /\ UNCHANGED tasks
       ELSE IF SubcommandsOf[result.stdout].names = <<>>
       THEN /\ UNCHANGED tasks
            /\ IF ParametersOf[result.stdout].ok
               THEN StoreCommands([n \in {"default"} |->
                        SkillCommand("default", "", entry, ParametersOf[result.stdout].params)])
               ELSE RaiseFromDiscovery
       ELSE /\ tasks' = [n \in DOMAIN SubcommandsOf[result.stdout].desc |-> Pending]
            /\ pc' = "gather"
            /\ UNCHANGED <<commands, cacheTime, discovered, reply>>

\* run_command: create_subprocess_shell starts `<entry> -h`
HelpSpawn ==
    /\ pc = "discover"
    /\ spawned' = Spawn("help", entry \o " -h")
    /\ pc' = "help"
    /\ UNCHANGED <<commands, cacheTime, clock, req, refreshNow, mainResult, tasks,
                   discovered, handled, reply>>
    /\ UNCHANGED <<skillVars, parseVars, pipeVars, helpVars, scanVars, verdict, build, overlapVars, execVars>>

\* run_command: create_subprocess_shell raises, `except Exception` reports -1
HelpNoStart ==
    /\ pc = "discover"
    /\ AfterMainHelp(Result(-1, ""))
    /\ UNCHANGED <<clock, req, refreshNow, spawned, handled>>
    /\ UNCHANGED <<skillVars, parseVars, pipeVars, helpVars, scanVars, verdict, build, overlapVars, execVars>>

\* the top-level help invocation exits or times out
HelpSettle(result) ==
    /\ pc = "help"
    /\ AfterMainHelp(result)
    /\ UNCHANGED <<clock, req, refreshNow, spawned, handled>>
    /\ UNCHANGED <<skillVars, parseVars, pipeVars, helpVars, scanVars, verdict, build, overlapVars, execVars>>

\* one task of the gather starts `<entry> <subcommand> -h`
SubSpawn(n) ==
    /\ pc = "gather"
    /\ tasks[n] = Pending
    /\ spawned' = Spawn("subhelp", entry \o " " \o n \o " -h")
    /\ tasks' = [tasks EXCEPT ![n] = Running]
    /\ UNCHANGED <<commands, cacheTime, clock, pc, req, refreshNow, mainResult, discovered,
                   handled, reply>>
    /\ UNCHANGED <<skillVars, parseVars, pipeVars, helpVars, scanVars, verdict, build, overlapVars, execVars>>

\* one task of the gather cannot start its process
SubNoStart(n) ==
    /\ pc = "gather"
    /\ tasks[n] = Pending
    /\ tasks' = [tasks EXCEPT ![n] = Result(-1, "")]
    /\ UNCHANGED <<commands, cacheTime, clock, pc, req, refreshNow, mainResult, discovered,
                   spawned, handled, reply>>
    /\ UNCHANGED <<skillVars, parseVars, pipeVars, helpVars, scanVars, verdict, build, overlapVars, execVars>>

\* one help invocation of the gather exits or times out
SubSettle(n, result) ==
    /\ pc = "gather"
    /\ tasks[n] = Running
    /\ tasks' = [tasks EXCEPT ![n] = result]
    /\ UNCHANGED <<commands, cacheTime, clock, pc, req, refreshNow, mainResult, discovered,
                   spawned, handled, reply>>
    /\ UNCHANGED <<skillVars, parseVars, pipeVars, helpVars, scanVars, verdict, build, overlapVars, execVars>>

\* the loop over zip(subcommands, results)
AssembleCommands(subcommands, results) ==
    LET kept == {n \in DOMAIN results : results[n].returncode = 0} IN
    IF \E n \in kept : ~ParametersOf[results[n].stdout].ok
    THEN [ok |-> FALSE, commands |-> NoCommands]
    ELSE [ok |-> TRUE,
          commands |-> [n \in kept |->
              SkillCommand(n, subcommands.desc[n], entry \o " " \o n,
                           ParametersOf[results[n].stdout].params)]]

\* what the gather leaves: the mapping is stored, or the exception goes up
AfterGather(assembled) ==
    IF assembled.ok THEN StoreCommands(assembled.commands) ELSE RaiseFromDiscovery

\* asyncio.gather returns: every task has settled
Gathered ==
    /\ pc = "gather"
    /\ \A n \in DOMAIN tasks : Settled(tasks[n])
    /\ AfterGather(AssembleCommands(SubcommandsOf[mainResult.stdout], tasks))
    /\ UNCHANGED <<clock, req, refreshNow, mainResult, tasks, spawned, handled>>
    /\ UNCHANGED <<skillVars, parseVars, pipeVars, helpVars, scanVars, verdict, build, overlapVars, execVars>>

(***************************************************************************)
(* call_tool after refresh_commands: get_skill replies, run_skill calls    *)
(* SkillExecutor.execute.                                                  *)
(***************************************************************************)
GetSkillReply ==
    /\ pc = "dispatch"
    /\ req.tool = "get_skill"
    /\ reply' = [kind |-> "skill", text |-> "Skill"]
    /\ pc' = "idle"
    /\ UNCHANGED <<commands, cacheTime, clock, req, refreshNow, mainResult, tasks,
                   discovered, spawned, handled>>
    /\ UNCHANGED <<skillVars, parseVars, pipeVars, helpVars, scanVars, verdict, build, overlapVars, execVars>>

\* a direct refresh_commands call returns to its caller
RefreshReturn ==
    /\ pc = "dispatch"
    /\ req.tool = "refresh_commands"
    /\ reply' = [kind |-> "refreshed", text |-> ""]
    /\ pc' = "idle"
    /\ UNCHANGED <<commands, cacheTime, clock, req, refreshNow, mainResult, tasks,
                   discovered, spawned, handled>>
    /\ UNCHANGED <<skillVars, parseVars, pipeVars, helpVars, scanVars, verdict, build, overlapVars, execVars>>

MissingRequired(cmd, parameters) ==
    {cmd.parameters[k].name : k \in {k \in 1..Len(cmd.parameters) :
         cmd.parameters[k].required /\ cmd.parameters[k].name \notin DOMAIN parameters}}

\* execute without its validation step
ExecuteChecksUnvalidated(command_name, parameters) ==
    IF command_name \notin DOMAIN commands THEN "Command not found"
    ELSE IF MissingRequired(commands[command_name], parameters) # {}
    THEN "Missing required parameters"
    ELSE "ok"

\* the checks of execute, in the order of the code: "ok" or the ValueError
ExecuteChecks(command_name, parameters) ==
    IF command_name \notin DOMAIN commands THEN "Command not found"
    ELSE IF ValidateEntryCommand(fs, entry, SkillDirectory) # "ok"
    THEN ValidateEntryCommand(fs, entry, SkillDirectory)
    ELSE IF MissingRequired(commands[command_name], parameters) # {}
    THEN "Missing required parameters"
    ELSE "ok"

\* execute after its checks: the ValueError, or create_subprocess_shell
AfterChecks(checks) ==
    IF checks # "ok"
    THEN /\ reply' = [kind |-> "error", text |-> checks]
         /\ pc' = "idle"
         /\ UNCHANGED spawned
    ELSE /\ spawned' = Spawn("run", BuildCommand(commands[req.command].bash_template,
                                                 commands[req.command].parameters,
                                                 req.parameters))
         /\ pc' = "running"
         /\ UNCHANGED reply

\* execute up to create_subprocess_shell; call_tool turns a ValueError into text
Execute ==
    /\ pc = "dispatch"
    /\ req.tool = "run_skill"
    /\ AfterChecks(ExecuteChecks(req.command, req.parameters))
    /\ UNCHANGED <<commands, cacheTime, clock, req, refreshNow, mainResult, tasks,
                   discovered, handled>>
    /\ UNCHANGED <<skillVars, parseVars, pipeVars, helpVars, scanVars, verdict, build, overlapVars, execVars>>

\* the process ends; execute returns the ExecutionResult
ExecExit(returncode) ==
    /\ pc = "running"
    /\ reply' = [kind |-> "result", text |-> IF returncode = 0 THEN "success" ELSE "failure"]
    /\ pc' = "idle"
    /\ UNCHANGED <<commands, cacheTime, clock, req, refreshNow, mainResult, tasks,
                   discovered, spawned, handled>>
    /\ UNCHANGED <<skillVars, parseVars, pipeVars, helpVars, scanVars, verdict, build, overlapVars, execVars>>

\* an hour passes between tool calls or while a help invocation runs
Tick ==
    /\ clock < MaxClock
    /\ pc \in {"idle", "help", "gather"}
    /\ clock' = clock + 1
    /\ UNCHANGED <<commands, cacheTime, pc, req, refreshNow, mainResult, tasks, discovered,
                   spawned, handled, reply>>
    /\ UNCHANGED <<skillVars, parseVars, pipeVars, helpVars, scanVars, verdict, build, overlapVars, execVars>>

\* no overlapping calls and no executions: the parts Spec does not use
NoOverlap ==
    /\ heap = <<>>
    /\ current = 0
    /\ published = {}
    /\ handlers = <<>>

\* no child process with pipes: the part only SpecPipes uses
NoPipes == pipes = [plan |-> <<>>, total |-> 0]

\* no direct discover_commands call: the part only SpecHelp uses
NoHelps == helps = [pc |-> "none", calls |-> <<>>]

\* no parse_parameters call in steps: the part only SpecScan uses
NoScan == scan = [pc |-> "none"]

\* no direct parser call: the part only SpecParse uses
NoParse == parsed = [fn |-> "none", args |-> <<>>, out |-> "", done |-> FALSE]

NoExecutions ==
    /\ disk = {}
    /\ execs = <<>>
    /\ output_handler = "LocalOutputHandler"

ServerIdle ==
    /\ commands = NoCommands
    /\ cacheTime = [set |-> FALSE, at |-> 0]
    /\ clock = 0
    /\ pc = "idle"
    /\ req = NoRequest
    /\ refreshNow = 0
    /\ mainResult = Pending
    /\ tasks = NoTasks
    /\ discovered = "none"
    /\ spawned = {}
    /\ handled = 0
    /\ reply = [kind |-> "none", text |-> ""]

Init ==
    /\ NoPipes
    /\ NoHelps
    /\ NoScan
    /\ NoParse
    /\ entry \in SkillEntries
    /\ fs = FsFull
    /\ script \in Scripts
    /\ ServerIdle
    /\ NoOverlap
    /\ NoExecutions
    /\ verdict = "none"
    /\ build = NoBuild

Next ==
    \/ \E r \in Requests : Request(r)
    \/ HelpSpawn
    \/ HelpNoStart
    \/ \E result \in HelpOutcomes(script.main) : HelpSettle(result)
    \/ \E n \in DOMAIN tasks : SubSpawn(n)
    \/ \E n \in DOMAIN tasks : SubNoStart(n)
    \/ \E n \in DOMAIN tasks : \E result \in HelpOutcomes(script.sub[n]) : SubSettle(n, result)
    \/ Gathered
    \/ GetSkillReply
    \/ RefreshReturn
    \/ Execute
    \/ \E returncode \in {0, 1} : ExecExit(returncode)
    \/ Tick

Spec == Init /\ [][Next]_vars

(***************************************************************************)
(* Direct calls of _validate_entry_command, over entry commands and file   *)
(* systems.                                                                *)
(***************************************************************************)
ValidateCall ==
    /\ verdict = "none"
    /\ verdict' = ValidateEntryCommand(fs, entry, SkillDirectory)
    /\ UNCHANGED <<skillVars, parseVars, pipeVars, helpVars, scanVars, serverVars, build, overlapVars, execVars>>

InitValidate ==
    /\ NoPipes
    /\ NoHelps
    /\ NoScan
    /\ NoParse
    /\ entry \in EntryCommands
    /\ fs \in FileSystems
    /\ script = [main |-> "", sub |-> <<>>]
    /\ ServerIdle
    /\ NoOverlap
    /\ NoExecutions
    /\ verdict = "none"
    /\ build = NoBuild

SpecValidate == InitValidate /\ [][ValidateCall]_vars

(***************************************************************************)
(* Direct calls of _build_command, over templates, schemas and supplied    *)
(* values.                                                                 *)
(***************************************************************************)
BuildTemplates == {"python script.py", "uv run python 'my script.py' run"}

BuildSchemas ==
    {<<>>,
     <<SkillParameter("input", TRUE, "string", "")>>,
     <<SkillParameter("input", TRUE, "string", ""), SkillParameter("dry_run", FALSE, "bool", "")>>,
     <<SkillParameter("dry_run", FALSE, "bool", ""), SkillParameter("input", TRUE, "string", "")>>}

BuildValues ==
    {None, StrVal("plain"), StrVal(""), StrVal("a b"), StrVal("; rm -rf /"), StrVal("it's"),
     StrVal("$(id) | cat && \"q\" > f"), StrVal("'"), StrVal("a\\'b\nc"),
     IntVal(42), IntVal(-7), BoolVal(TRUE)}

BuildNames == {"input", "dry_run", "extra"}

BuildParameters ==
    UNION {[names -> BuildValues] : names \in {{}, {"input"}, {"dry_run"}, {"extra"},
                                                {"input", "dry_run"}, {"input", "extra"}}}

BuildCall ==
    /\ ~build.done
    /\ build' = [build EXCEPT !.out = BuildCommand(build.template, build.schema,
                                                   build.parameters),
                              !.done = TRUE]
    /\ UNCHANGED <<skillVars, parseVars, pipeVars, helpVars, scanVars, serverVars, verdict, overlapVars, execVars>>

InitBuild ==
    /\ NoPipes
    /\ NoHelps
    /\ NoScan
    /\ NoParse
    /\ entry = "python script.py"
    /\ fs = FsFull
    /\ script = [main |-> "", sub |-> <<>>]
    /\ ServerIdle
    /\ NoOverlap
    /\ NoExecutions
    /\ verdict = "none"
    /\ build \in [template : BuildTemplates, schema : BuildSchemas,
                  parameters : BuildParameters, out : {""}, done : {FALSE}]

SpecBuild == InitBuild /\ [][BuildCall]_vars

(***************************************************************************)
(* Properties of call_tool, refresh_commands and execute (under Spec).     *)
(***************************************************************************)
RunSpawned == \E s \in spawned : s.kind = "run"

SubhelpSpawned == \E s \in spawned : s.kind = "subhelp"

\* C1: while a tool call is handled, no shell process (help invocation or
\* run) is ever started for a skill whose entry command the validator rejects.
C1_NoProcessForRejectedEntry ==
    spawned # {} => ValidateEntryCommand(fs, entry, SkillDirectory) = "ok"

\* the three checks of execute all pass for the call being handled
ChecksPass ==
    /\ req.command \in DOMAIN commands
    /\ ValidateEntryCommand(fs, entry, SkillDirectory) = "ok"
    /\ MissingRequired(commands[req.command], req.parameters) = {}

\* C2: execute has spawned the process only if, in this call, the command
\* was found, the entry command passed the validator and no required
\* parameter was missing; when a check fails the call ends with the
\* ValueError and without a spawned process.
C2_ExecuteFailsFast ==
    /\ RunSpawned => ChecksPass /\ reply.kind # "error"
    /\ (pc = "idle" /\ req.tool = "run_skill" /\ discovered # "raised" /\ ~ChecksPass)
           => (reply.kind = "error" /\ ~RunSpawned)

C2_Witness ==
    /\ pc = "running"
    /\ [kind |-> "run", cmd |-> "python script.py --input 'a b'"] \in spawned
    /\ \E k \in 1..Len(commands["default"].parameters) :
           commands["default"].parameters[k].required

\* C8: when the top-level help invocation exits non-zero, times out or cannot
\* be started, discover_commands returns the empty mapping: it does not
\* raise, and no per-subcommand help invocation is issued.
C8_FailedHelpGivesEmptyMapping ==
    (Settled(mainResult) /\ mainResult.returncode # 0)
        => /\ discovered = "returned"
           /\ commands = NoCommands
           /\ DOMAIN tasks = {}
           /\ ~SubhelpSpawned

C8_Witness ==
    /\ mainResult = Result(-1, "")
    /\ spawned = {[kind |-> "help", cmd |-> "python script.py -h"]}
    /\ discovered = "returned"
    /\ commands = NoCommands

\* C9: once the gather of the per-subcommand help invocations is over,
\* discover_commands has returned, and it has returned exactly the
\* subcommands whose invocation exited 0.
C9_GatherReturnsSucceeded ==
    (DOMAIN tasks # {} /\ pc # "gather")
        => /\ discovered = "returned"
           /\ DOMAIN commands = {n \in DOMAIN tasks : tasks[n].returncode = 0}

\* C10: after a top-level help that exited 0, discover_commands returns:
\* without subcommands exactly the command `default`, with the entry command
\* as template and the parameters of that help output; with subcommands no
\* `default` command, each command named after its subcommand with the
\* template `<entry> <subcommand>`.
C10_DefaultOnlyWithoutSubcommands ==
    (Settled(mainResult) /\ mainResult.returncode = 0 /\ pc # "gather")
        => /\ discovered = "returned"
           /\ IF ParseSubcommands(mainResult.stdout).names = <<>>
              THEN /\ DOMAIN commands = {"default"}
                   /\ commands["default"].name = "default"
                   /\ commands["default"].bash_template = entry
                   /\ commands["default"].parameters
                          = ParseParameters(mainResult.stdout).params
              ELSE /\ "default" \notin DOMAIN commands
                   /\ \A n \in DOMAIN commands :
                          /\ commands[n].name = n
                          /\ commands[n].bash_template = entry \o " " \o n

(***************************************************************************)
(* Properties of _validate_entry_command (under SpecValidate).             *)
(***************************************************************************)
Tokens == ShlexSplit(entry)

\* the program the shell runs is an allow-listed runtime or a ./ path
ProgramAllowed(toks) ==
    /\ toks # <<>>
    /\ \/ toks[1] \in {"python", "python3", "node", "bash", "sh"}
       \/ Len(toks) >= 2 /\ toks[1] = "uv" /\ toks[2] = "run"
       \/ StartsWith(toks[1], "./")

\* C3: the validator accepts a command only if the program the shell will
\* run is an allow-listed runtime or a ./-relative path, and rejects every
\* other command with the 'must start with allowed runtime' reason.
C3_OnlyAllowedPrograms ==
    (verdict # "none" /\ Tokens.ok /\ ~ProgramAllowed(Tokens.toks))
        => verdict = ReasonRuntime

\* C4: a command that starts with an allowed runtime prefix and has an
\* absolute path among its shell tokens, at any position, is rejected with
\* the 'Absolute paths not allowed' reason.
C4_AbsoluteTokenAnywhere ==
    (/\ verdict # "none"
     /\ HasAllowedPrefix(entry)
     /\ Tokens.ok
     /\ \E k \in 1..Len(Tokens.toks) : IsAbs(Tokens.toks[k]))
        => verdict = ReasonAbsolute

\* position of the script token: the first token ending in .py, .sh or .js
\* or starting with ./ (0 if there is none)
ScriptTokenAt(toks) ==
    IF \E k \in 1..Len(toks) : IsScriptPart(toks[k])
    THEN CHOOSE k \in 1..Len(toks) :
             IsScriptPart(toks[k]) /\ \A h \in 1..(k - 1) : ~IsScriptPart(toks[h])
    ELSE 0

ScriptTarget(toks) == Resolve(fs, SkillDirectory, toks[ScriptTokenAt(toks)])

ScriptOutside(toks) ==
    /\ ScriptTokenAt(toks) # 0
    /\ ~IsRelativeTo(ScriptTarget(toks), Resolve(fs, SkillDirectory, ""))

\* the runtime-prefix check and the absolute-path check pass: no token up to
\* the script token (any token, if there is no script token) is absolute
PassesEarlierChecks(toks) ==
    /\ HasAllowedPrefix(entry)
    /\ \A h \in 1..(IF ScriptTokenAt(toks) = 0 THEN Len(toks) ELSE ScriptTokenAt(toks)) :
           ~IsAbs(toks[h])

\* C5 as stated: whenever the script token resolves outside the canonical
\* skill directory, the validator fails with the 'escapes skill directory'
\* reason.
C5_OutsideScriptEscapes ==
    (verdict # "none" /\ Tokens.ok /\ ScriptOutside(Tokens.toks))
        => verdict = ReasonEscape

\* C5, amended: for a command that passes the runtime-prefix check and the
\* absolute-path check, a script token that resolves outside the canonical
\* skill directory gives the 'escapes skill directory' reason, whether or
\* not the target exists.
C5_OutsideScriptEscapesAfterEarlierChecks ==
    (/\ verdict # "none"
     /\ Tokens.ok
     /\ PassesEarlierChecks(Tokens.toks)
     /\ ScriptOutside(Tokens.toks))
        => verdict = ReasonEscape

C5_Witness ==
    /\ verdict = ReasonEscape
    /\ entry = "python ../ghost.py"
    /\ ~PathExists(fs, ScriptTarget(Tokens.toks))

\* C6: for a command that passes the runtime-prefix and absolute-path checks
\* and whose script token, if any, resolves inside the skill directory, the
\* validator succeeds exactly when there is no script token or the resolved
\* file exists, and otherwise fails with the 'Script not found' reason.
C6_InsideScriptMustExist ==
    (/\ verdict # "none"
     /\ Tokens.ok
     /\ PassesEarlierChecks(Tokens.toks)
     /\ ~ScriptOutside(Tokens.toks))
        => IF ScriptTokenAt(Tokens.toks) = 0 \/ PathExists(fs, ScriptTarget(Tokens.toks))
           THEN verdict = "ok"
           ELSE verdict = ReasonNotFound

C6_Witness ==
    /\ verdict = ReasonNotFound
    /\ entry = "python src/nested.py"
    /\ fs = FsBare

(***************************************************************************)
(* Properties of _build_command (under SpecBuild).                         *)
(***************************************************************************)
\* the argument tokens the schema and the supplied values call for
RECURSIVE ExpectedArguments(_, _, _)
ExpectedArguments(schema, parameters, k) ==
    IF k > Len(schema) THEN <<>>
    ELSE (IF schema[k].name \in DOMAIN parameters /\ parameters[schema[k].name].t # "none"
          THEN <<"--" \o StrReplace(schema[k].name, "_", "-"),
                 PyStr(parameters[schema[k].name])>>
          ELSE <<>>)
         \o ExpectedArguments(schema, parameters, k + 1)

\* C7: split by POSIX shell rules, the built command is the template's
\* tokens followed, in schema order, by --<name with hyphens> and one token
\* equal to str(value) for each declared parameter with a non-null supplied
\* value, and by nothing else.
C7_BuiltCommandTokens ==
    build.done =>
        ShlexSplit(build.out)
            = [ok |-> TRUE,
               toks |-> ShlexSplit(build.template).toks
                            \o ExpectedArguments(build.schema, build.parameters, 1)]

C7_Witness ==
    /\ build.done
    /\ Len(build.schema) = 2
    /\ build.parameters = [n \in {"input", "dry_run"} |->
                              IF n = "input" THEN StrVal("it's") ELSE StrVal("; rm -rf /")]
    /\ Len(ShlexSplit(build.out).toks) = Len(ShlexSplit(build.template).toks) + 4

(***************************************************************************)
(* Properties of Skill.refresh_commands (under Spec).                      *)
(***************************************************************************)
InDiscovery == pc \in {"discover", "help", "gather"}

HelpProcesses(procs) == {s \in procs : s.kind \in {"help", "subhelp"}}

\* C11: a refresh_commands call starts discovery exactly when it is forced,
\* no schema was cached yet, or the cached-at time is older than the TTL;
\* outside a discovery no help process is spawned and commands and the
\* cached-at time stay as they are, whatever the cached mapping holds.
C11_RefreshOnlyWhenStale ==
    [][/\ (handled' = handled + 1 /\ req'.skill_name \in SkillNames)
              => ((pc' = "discover")
                      <=> (req'.force \/ ~cacheTime.set
                               \/ clock - cacheTime.at > SchemaTtl))
       /\ ~InDiscovery
              => /\ commands' = commands
                 /\ cacheTime' = cacheTime
                 /\ HelpProcesses(spawned') \subseteq HelpProcesses(spawned)]_vars

C11_Witness ==
    /\ pc = "dispatch"
    /\ req.tool = "run_skill"
    /\ discovered = "none"
    /\ cacheTime.set
    /\ commands = NoCommands
    /\ spawned = {}

(***************************************************************************)
(* Overlapping calls on one Skill.  Every handler makes one call; the      *)
(* event loop switches between handlers only at an await, so each action   *)
(* below runs from one await to the next.  Skill.commands is a reference   *)
(* to a dict object: heap[d] holds the mapping of object d and, for the    *)
(* properties, the handler whose discovery built it.                       *)
(***************************************************************************)
MaxHandlers == 2

Handlers == 1..MaxHandlers

OverlapCalls ==
    {[tool |-> "get_skill", force |-> FALSE], [tool |-> "run_skill", force |-> FALSE],
     [tool |-> "refresh_commands", force |-> TRUE]}

OverlapScripts ==
    {s \in Scripts : s.main \in {HelpSingle, HelpDefaultSub, HelpArgparse}}

InitialDict == [by |-> 0, map |-> NoCommands]

IdleHandler ==
    [pc |-> "idle", tool |-> "none", now |-> 0, main |-> Pending, tasks |-> NoTasks,
     found |-> NoCommands, seen |-> 0, seenMap |-> NoCommands]

\* the mapping merged into the dict object Skill.commands already holds
StoreMappingInPlace(objects, h, found) ==
    [heap |-> [objects EXCEPT ![Len(objects)] =
                  [by |-> h,
                   map |-> [n \in DOMAIN @.map \cup DOMAIN found |->
                               IF n \in DOMAIN found THEN found[n] ELSE @.map[n]]]],
     current |-> Len(objects)]

\* `self.commands = <the dict discover_commands returned>`: a new object
StoreMapping(objects, h, found) ==
    [heap |-> Append(objects, [by |-> h, map |-> found]), current |-> Len(objects) + 1]

\* refresh_commands after discover_commands has returned found
OverlapStore(h, found) ==
    /\ heap' = StoreMapping(heap, h, found).heap
    /\ current' = StoreMapping(heap, h, found).current
    /\ published' = published \cup {StoreMapping(heap, h, found).current}
    /\ cacheTime' = [set |-> TRUE, at |-> handlers[h].now]
    /\ handlers' = [handlers EXCEPT ![h].found = found, ![h].pc = "read"]

\* the exception of parse_parameters ends the call
OverlapRaise(h) ==
    /\ handlers' = [handlers EXCEPT ![h].pc = "raised"]
    /\ UNCHANGED <<heap, current, published, cacheTime>>

\* a call arrives: refresh_commands up to the await of the top-level help
OverlapStart(h, call) ==
    /\ handlers[h].pc = "idle"
    /\ handlers' = [handlers EXCEPT ![h].tool = call.tool, ![h].now = clock,
                                    ![h].pc = IF IsStale(call.force) THEN "help" ELSE "read"]
    /\ UNCHANGED <<heap, current, published, cacheTime, clock>>
    /\ UNCHANGED <<commands, pc, req, refreshNow, mainResult, tasks, discovered, spawned,
                   handled, reply>>
    /\ UNCHANGED <<skillVars, parseVars, pipeVars, helpVars, scanVars, verdict, build, execVars>>

\* the top-level help of handler h has ended with result
OverlapAfterMainHelp(h, result) ==
    IF HelpFailed(result) THEN OverlapStore(h, NoCommands)
    ELSE IF SubcommandsOf[result.stdout].names = <<>>
    THEN IF ParametersOf[result.stdout].ok
         THEN OverlapStore(h, [n \in {"default"} |->
                  SkillCommand("default", "", entry, ParametersOf[result.stdout].params)])
         ELSE OverlapRaise(h)
    ELSE /\ handlers' = [handlers EXCEPT
                ![h].main = result,
                ![h].tasks = [n \in DOMAIN SubcommandsOf[result.stdout].desc |-> Pending],
                ![h].pc = "gather"]
         /\ UNCHANGED <<heap, current, published, cacheTime>>

OverlapHelpSettle(h, result) ==
    /\ handlers[h].pc = "help"
    /\ OverlapAfterMainHelp(h, result)
    /\ UNCHANGED <<commands, clock, pc, req, refreshNow, mainResult, tasks, discovered,
                   spawned, handled, reply>>
    /\ UNCHANGED <<skillVars, parseVars, pipeVars, helpVars, scanVars, verdict, build, execVars>>

\* one help invocation of handler h's gather ends
OverlapSubSettle(h, n, result) ==
    /\ handlers[h].pc = "gather"
    /\ handlers[h].tasks[n] = Pending
    /\ handlers' = [handlers EXCEPT ![h].tasks[n] = result]
    /\ UNCHANGED <<heap, current, published, cacheTime, clock>>
    /\ UNCHANGED <<commands, pc, req, refreshNow, mainResult, tasks, discovered, spawned,
                   handled, reply>>
    /\ UNCHANGED <<skillVars, parseVars, pipeVars, helpVars, scanVars, verdict, build, execVars>>

OverlapAfterGather(h, assembled) ==
    IF assembled.ok THEN OverlapStore(h, assembled.commands) ELSE OverlapRaise(h)

\* the gather of handler h returns
OverlapGathered(h) ==
    /\ handlers[h].pc = "gather"
    /\ \A n \in DOMAIN handlers[h].tasks : Settled(handlers[h].tasks[n])
    /\ OverlapAfterGather(h, AssembleCommands(SubcommandsOf[handlers[h].main.stdout],
                                              handlers[h].tasks))
    /\ UNCHANGED <<commands, clock, pc, req, refreshNow, mainResult, tasks, discovered,
                   spawned, handled, reply>>
    /\ UNCHANGED <<skillVars, parseVars, pipeVars, helpVars, scanVars, verdict, build, execVars>>

\* the caller reads skill.commands: to_tool_definition, or commands.get in execute
OverlapRead(h) ==
    /\ handlers[h].pc = "read"
    /\ handlers' = [handlers EXCEPT ![h].seen = current, ![h].seenMap = heap[current].map,
                                    ![h].pc = "done"]
    /\ UNCHANGED <<heap, current, published, cacheTime, clock>>
    /\ UNCHANGED <<commands, pc, req, refreshNow, mainResult, tasks, discovered, spawned,
                   handled, reply>>
    /\ UNCHANGED <<skillVars, parseVars, pipeVars, helpVars, scanVars, verdict, build, execVars>>

OverlapTick ==
    /\ clock < MaxClock
    /\ clock' = clock + 1
    /\ UNCHANGED <<heap, current, published, cacheTime, handlers>>
    /\ UNCHANGED <<commands, pc, req, refreshNow, mainResult, tasks, discovered, spawned,
                   handled, reply>>
    /\ UNCHANGED <<skillVars, parseVars, pipeVars, helpVars, scanVars, verdict, build, execVars>>

InitOverlap ==
    /\ NoPipes
    /\ NoHelps
    /\ NoScan
    /\ NoParse
    /\ entry = "python script.py"
    /\ fs = FsFull
    /\ script \in OverlapScripts
    /\ ServerIdle
    /\ NoExecutions
    /\ verdict = "none"
    /\ build = NoBuild
    /\ heap = <<InitialDict>>
    /\ current = 1
    /\ published = {1}
    /\ handlers = [h \in Handlers |-> IdleHandler]

NextOverlap ==
    \/ \E h \in Handlers : \E call \in OverlapCalls : OverlapStart(h, call)
    \/ \E h \in Handlers : \E result \in HelpOutcomes(script.main) : OverlapHelpSettle(h, result)
    \/ \E h \in Handlers : \E n \in DOMAIN handlers[h].tasks :
           \E result \in HelpOutcomes(script.sub[n]) : OverlapSubSettle(h, n, result)
    \/ \E h \in Handlers : OverlapGathered(h)
    \/ \E h \in Handlers : OverlapRead(h)
    \/ OverlapTick

SpecOverlap == InitOverlap /\ [][NextOverlap]_vars

\* C12: whatever the interleaving, a dict object that Skill.commands holds or
\* has held keeps the complete mapping of the single discovery run that built
\* it (the first one the initial empty mapping), and what a reader has read
\* is the mapping of such an object: old and new commands are never mixed
\* and a published mapping is never changed in place.
C12_ReadsSeeOneDiscovery ==
    /\ \A d \in published :
           heap[d].map = IF heap[d].by = 0 THEN NoCommands ELSE handlers[heap[d].by].found
    /\ current \in published
    /\ \A h \in Handlers :
           handlers[h].seen # 0 =>
               /\ handlers[h].seen \in published
               /\ handlers[h].seenMap = heap[handlers[h].seen].map

C12_Witness ==
    /\ \A h \in Handlers : handlers[h].pc = "done"
    /\ handlers[1].seen = 3
    /\ DOMAIN handlers[1].found = {"default", "run"}
    /\ DOMAIN handlers[2].found = {"run"}
    /\ handlers[1].seenMap = handlers[2].found

(***************************************************************************)
(* SkillExecutor._execute_subprocess and the part of execute after it.     *)
(* Paths are tuples of components; disk has the shape of fs.  An execution *)
(* snapshots output/, spawns the process, which writes and deletes entries *)
(* of output/ and ends with an exit code and its raw stdout; the executor  *)
(* then lists output/ again, falls back to the OUTPUT_FILE: marker, and    *)
(* execute hands the new files to the output handler.                      *)
(***************************************************************************)
\* the printable ASCII characters in code point order
AsciiOrder ==
    " !\"#$%&'()*+,-./0123456789:;<=>?@ABCDEFGHIJKLMNOPQRSTUVWXYZ[\\]^_abcdefghijklmnopqrstuvwxyz{|}~"

CharRank(c) == CHOOSE k \in 1..Len(AsciiOrder) : Ch(AsciiOrder, k) = c

\* a < b of str
StrLess(a, b) ==
    \E i \in 1..Len(b) :
        /\ Slice(a, 1, i - 1) = Slice(b, 1, i - 1)
        /\ i - 1 <= Len(a)
        /\ (i > Len(a) \/ CharRank(Ch(a, i)) < CharRank(Ch(b, i)))

\* p < q of Path: the parts compared in turn
PathLess(p, q) ==
    \E i \in 1..Len(q) :
        /\ i - 1 <= Len(p)
        /\ SubSeq(p, 1, i - 1) = SubSeq(q, 1, i - 1)
        /\ (i > Len(p) \/ StrLess(p[i], q[i]))

\* sorted(paths)
RECURSIVE SortedPaths(_)
SortedPaths(paths) ==
    IF paths = {} THEN <<>>
    ELSE LET least == CHOOSE p \in paths : \A q \in paths \ {p} : PathLess(p, q)
         IN  <<least>> \o SortedPaths(paths \ {least})

OutputDir(cwd) == cwd \o <<"output">>

\* output_dir.exists()
DirExists(d, p) == ResolveFrom(d, <<>>, p) \in d.dirs

\* path.exists() and path.is_file()
IsFile(d, p) == ResolveFrom(d, <<>>, p) \in d.files

\* set(output_dir.glob("*")) if output_dir.exists() else set()
OutputEntries(d, cwd) ==
    IF DirExists(d, OutputDir(cwd))
    THEN {p \in d.files \cup d.dirs : Len(p) > 0 /\ Parent(p) = OutputDir(cwd)}
    ELSE {}

\* the parts of Path(s): empty and "." components dropped, ".." kept
PathParts(s) == SelectSeq(StrSplit(s, "/"), LAMBDA c : c # "" /\ c # ".")

\* str(path.relative_to(cwd)), for a path that has cwd as a prefix
RelativeStr(p, cwd) == JoinFrom(SubSeq(p, Len(cwd) + 1, Len(p)), "/", 1)

RelativeStrs(paths, cwd) == [k \in 1..Len(paths) |-> RelativeStr(paths[k], cwd)]

\* line.rstrip()
RStrip(s) == Slice(s, 1, LastNonSpace(s))

\* the lines readline yields: split at "\n", no empty last line
RawLines(text) ==
    IF text = "" THEN <<>>
    ELSE IF EndsWith(text, "\n") THEN StrSplit(Slice(text, 1, Len(text) - 1), "\n")
    ELSE StrSplit(text, "\n")

\* "\n".join(line.decode("utf-8").rstrip() for each line read)
CapturedText(text) ==
    IF RawLines(text) = <<>> THEN ""
    ELSE JoinFrom([k \in 1..Len(RawLines(text)) |-> RStrip(RawLines(text)[k])], "\n", 1)

OutputMarker == "OUTPUT_FILE:"

\* re.search(r"OUTPUT_FILE:(.+)", stdout): where the first match starts, 0 for None
MarkerMatchAt(stdout, i) ==
    /\ Slice(stdout, i, i + Len(OutputMarker) - 1) = OutputMarker
    /\ Ch(stdout, i + Len(OutputMarker)) \notin {"", "\n"}

OutputFileMatch(stdout) ==
    IF \E i \in 1..Len(stdout) : MarkerMatchAt(stdout, i)
    THEN CHOOSE i \in 1..Len(stdout) :
             MarkerMatchAt(stdout, i) /\ \A k \in 1..(i - 1) : ~MarkerMatchAt(stdout, k)
    ELSE 0

\* output_file_match.group(1).strip()
ReturnedFile(stdout, at) ==
    Strip(Slice(stdout, at + Len(OutputMarker),
                RunEndNot(stdout, at + Len(OutputMarker), "\n")))

\* Path(returned_file) if os.path.isabs(returned_file) else cwd / returned_file
ReturnedFilePath(cwd, returned_file) ==
    IF IsAbs(returned_file) THEN PathParts(returned_file)
    ELSE cwd \o PathParts(returned_file)

\* the marker fallback: "none" (the diff stays), "file", or the ValueError of relative_to
MarkerFallback(d, cwd, stdout, at) ==
    IF at = 0 THEN [kind |-> "none", path |-> <<>>]
    ELSE IF ~IsFile(d, ReturnedFilePath(cwd, ReturnedFile(stdout, at)))
    THEN [kind |-> "none", path |-> <<>>]
    ELSE IF ~IsRelativeTo(ReturnedFilePath(cwd, ReturnedFile(stdout, at)), cwd)
    THEN [kind |-> "raise", path |-> ReturnedFilePath(cwd, ReturnedFile(stdout, at))]
    ELSE [kind |-> "file", path |-> ReturnedFilePath(cwd, ReturnedFile(stdout, at))]

\* a diff that forgets the snapshot
DirectoryDiffAll(before_files, after_files) == SortedPaths(after_files)

\* new_file_paths = sorted(after_files - before_files)
DirectoryDiff(before_files, after_files) == SortedPaths(after_files \ before_files)

NoFallback == [kind |-> "none", path |-> <<>>]

\* if success and not new_file_paths: the marker is looked up
Fallback(d, cwd, returncode, stdout, diff) ==
    IF returncode = 0 /\ diff = <<>>
    THEN MarkerFallback(d, cwd, stdout, OutputFileMatch(stdout))
    ELSE NoFallback

\* OutputHandler.process: one OutputFile per path
ProcessOutputs(paths) == [k \in 1..Len(paths) |-> [filename |-> paths[k][Len(paths[k])]]]

\* create_server: the handler given, LocalOutputHandler for None
CreateServerHandler(given) == IF given = "None" THEN "LocalOutputHandler" ELSE given

HandlersGiven == {"None", "GCSOutputHandler"}

NotStarted ==
    [pc |-> "idle", before |-> {}, returncode |-> 0, raw |-> [text |-> "", utf8 |-> TRUE],
     after |-> {}, diff |-> <<>>, stdout |-> "", success |-> FALSE,
     new_file_paths |-> <<>>, output_files |-> <<>>, processed_outputs |-> <<>>,
     handed |-> FALSE, error |-> "", wrote |-> {}]

\* what the script may write into output/, and what it may delete there
OutputNames == {"b.csv", "a.csv", "B.csv"}
DeletableNames == OutputNames \cup {"old.csv"}

ReturnCodes == {0, 1}

RawOutputs ==
    {[text |-> t, utf8 |-> TRUE] :
        t \in {"", "done\n", "OUTPUT_FILE:r.csv\n", "log\nsaved OUTPUT_FILE:  r.csv  \nbye\n",
               "OUTPUT_FILE:gone.csv\n", "OUTPUT_FILE:output\n",
               "OUTPUT_FILE:../outside.txt\n", "OUTPUT_FILE:/etc/passwd\n",
               "OUTPUT_FILE:/srv/skills/demo/r.csv\n", "OUTPUT_FILE:\nOUTPUT_FILE:r.csv\n"}}
    \cup {[text |-> "\\xff\\xfe\n", utf8 |-> FALSE]}

DiskNoOutput ==
    [files |-> {SkillDirectory \o <<"script.py">>, SkillDirectory \o <<"r.csv">>,
                <<"srv", "skills", "outside.txt">>, <<"etc", "passwd">>},
     dirs |-> BaseDirs,
     links |-> {}]

DiskOldOutput ==
    [files |-> DiskNoOutput.files \cup {OutputDir(SkillDirectory) \o <<"old.csv">>},
     dirs |-> BaseDirs \cup {OutputDir(SkillDirectory)},
     links |-> {}]

\* the snapshot of output/, then create_subprocess_shell
ExecStart(e) ==
    /\ execs[e].pc \in {"idle", "done", "raised"}
    /\ execs' = [execs EXCEPT ![e] = [NotStarted EXCEPT
                     !.pc = "running",
                     !.before = OutputEntries(disk, SkillDirectory)]]
    /\ UNCHANGED <<disk, output_handler>>
    /\ UNCHANGED <<skillVars, parseVars, pipeVars, helpVars, scanVars, serverVars, verdict, build, overlapVars>>

\* the running script creates output/<name>; wrote remembers whose script did
ProcessWrite(e, name) ==
    /\ execs[e].pc = "running"
    /\ disk' = [disk EXCEPT !.files = @ \cup {OutputDir(SkillDirectory) \o <<name>>},
                            !.dirs = @ \cup {OutputDir(SkillDirectory)}]
    /\ execs' = [execs EXCEPT ![e].wrote = @ \cup {OutputDir(SkillDirectory) \o <<name>>}]
    /\ UNCHANGED output_handler
    /\ UNCHANGED <<skillVars, parseVars, pipeVars, helpVars, scanVars, serverVars, verdict, build, overlapVars>>

\* the running script removes output/<name>
ProcessDelete(e, name) ==
    /\ execs[e].pc = "running"
    /\ OutputDir(SkillDirectory) \o <<name>> \in disk.files
    /\ disk' = [disk EXCEPT !.files = @ \ {OutputDir(SkillDirectory) \o <<name>>}]
    /\ UNCHANGED <<execs, output_handler>>
    /\ UNCHANGED <<skillVars, parseVars, pipeVars, helpVars, scanVars, serverVars, verdict, build, overlapVars>>

\* the script ends: its exit code and what it wrote to stdout
ProcessExit(e, returncode, raw) ==
    /\ execs[e].pc = "running"
    /\ execs' = [execs EXCEPT ![e] = [@ EXCEPT !.pc = "exited", !.returncode = returncode,
                                               !.raw = raw]]
    /\ UNCHANGED <<disk, output_handler>>
    /\ UNCHANGED <<skillVars, parseVars, pipeVars, helpVars, scanVars, serverVars, verdict, build, overlapVars>>

\* execute from the ExecutionResult on: the handler call and the return
ExecuteReturn(x, handler, new_file_paths, output_files) ==
    [x EXCEPT !.pc = "done",
              !.new_file_paths = new_file_paths,
              !.output_files = output_files,
              !.handed = handler # "None" /\ x.returncode = 0 /\ new_file_paths # <<>>,
              !.processed_outputs =
                  IF handler # "None" /\ x.returncode = 0 /\ new_file_paths # <<>>
                  THEN ProcessOutputs(new_file_paths) ELSE <<>>]

\* _execute_subprocess after process.wait(), given the diff and the fallback
SubprocessResult(x, handler, cwd, diff, fallback) ==
    IF fallback.kind = "raise" THEN [x EXCEPT !.pc = "raised", !.error = "ValueError"]
    ELSE IF fallback.kind = "file"
    THEN ExecuteReturn(x, handler, <<fallback.path>>, <<RelativeStr(fallback.path, cwd)>>)
    ELSE ExecuteReturn(x, handler, diff, RelativeStrs(diff, cwd))

\* a collection that reports only what this run's own script created
CollectedOwnFiles(x, d, cwd, stdout, after, diff) ==
    [SubprocessResult(x, output_handler, cwd, SelectSeq(diff, LAMBDA p : p \in x.wrote),
                      Fallback(d, cwd, x.returncode, stdout,
                               SelectSeq(diff, LAMBDA p : p \in x.wrote)))
        EXCEPT !.stdout = stdout, !.after = after,
               !.diff = SelectSeq(diff, LAMBDA p : p \in x.wrote),
               !.success = (x.returncode = 0)]

\* the captured record of one execution, from the decoded stdout on
Collected(x, d, cwd, stdout, after, diff) ==
    [SubprocessResult(x, output_handler, cwd, diff, Fallback(d, cwd, x.returncode, stdout, diff))
        EXCEPT !.stdout = stdout, !.after = after, !.diff = diff,
               !.success = (x.returncode = 0)]

\* the rest of _execute_subprocess and of execute, once the process has ended
ExecCollect(e) ==
    /\ execs[e].pc = "exited"
    /\ execs' = [execs EXCEPT ![e] =
           IF ~execs[e].raw.utf8
           THEN [@ EXCEPT !.pc = "raised", !.error = "UnicodeDecodeError"]
           ELSE Collected(execs[e], disk, SkillDirectory, CapturedText(execs[e].raw.text),
                          OutputEntries(disk, SkillDirectory),
                          DirectoryDiff(execs[e].before, OutputEntries(disk, SkillDirectory)))]
    /\ UNCHANGED <<disk, output_handler>>
    /\ UNCHANGED <<skillVars, parseVars, pipeVars, helpVars, scanVars, serverVars, verdict, build, overlapVars>>

InitExec ==
    /\ NoPipes
    /\ NoHelps
    /\ NoScan
    /\ NoParse
    /\ entry = "python script.py"
    /\ fs = FsFull
    /\ script = [main |-> "", sub |-> <<>>]
    /\ ServerIdle
    /\ NoOverlap
    /\ verdict = "none"
    /\ build = NoBuild
    /\ disk \in {DiskNoOutput, DiskOldOutput}
    /\ execs = <<NotStarted>>
    /\ output_handler \in {CreateServerHandler(given) : given \in HandlersGiven}

NextExec ==
    \/ \E e \in DOMAIN execs : ExecStart(e)
    \/ \E e \in DOMAIN execs : \E name \in OutputNames : ProcessWrite(e, name)
    \/ \E e \in DOMAIN execs : \E name \in DeletableNames : ProcessDelete(e, name)
    \/ \E e \in DOMAIN execs : \E returncode \in ReturnCodes : \E raw \in RawOutputs :
           ProcessExit(e, returncode, raw)
    \/ \E e \in DOMAIN execs : ExecCollect(e)

SpecExec == InitExec /\ [][NextExec]_vars

(***************************************************************************)
(* Claims about _execute_subprocess and execute (SpecExec).                *)
(***************************************************************************)
\* the entries of output/ on a disk, stated on the paths themselves
EntriesOfOutput(d) ==
    IF SkillDirectory \o <<"output">> \in d.dirs
    THEN {p \in d.files \cup d.dirs :
              Len(p) = Len(SkillDirectory) + 2
              /\ SubSeq(p, 1, Len(SkillDirectory) + 1) = SkillDirectory \o <<"output">>}
    ELSE {}

Snapshots(e) == execs[e].pc # "running" /\ execs'[e].pc = "running"

ComputesDiff(e) ==
    /\ execs[e].pc = "exited"
    /\ execs'[e].pc \in {"done", "raised"}
    /\ execs'[e].error # "UnicodeDecodeError"

StrictlySorted(paths) ==
    \A i, j \in 1..Len(paths) : i < j => StrLess(paths[i][Len(paths[i])], paths[j][Len(paths[j])])

\* C13: the snapshot is the listing of output/ before the spawn (empty when
\* output/ does not exist); after the process has ended, whatever its exit
\* code, the diff holds exactly the entries of output/ present then and absent
\* from the snapshot, in sorted order, and the result names them relative to
\* the skill directory.
C13_DiffIsAfterMinusBefore ==
    [][\A e \in DOMAIN execs :
          /\ Snapshots(e) => execs'[e].before = EntriesOfOutput(disk)
          /\ ComputesDiff(e) =>
                /\ {execs'[e].diff[k] : k \in 1..Len(execs'[e].diff)}
                       = EntriesOfOutput(disk) \ execs[e].before
                /\ StrictlySorted(execs'[e].diff)
                /\ (execs'[e].diff # <<>> /\ execs'[e].pc = "done") =>
                       execs'[e].output_files =
                           [k \in 1..Len(execs'[e].diff) |->
                               "output/" \o execs'[e].diff[k][Len(execs'[e].diff[k])]]]_vars

C13_Witness ==
    /\ execs[1].pc = "done"
    /\ execs[1].returncode = 1
    /\ execs[1].before = {SkillDirectory \o <<"output", "old.csv">>}
    /\ SkillDirectory \o <<"output", "old.csv">> \notin disk.files
    /\ execs[1].output_files = <<"output/B.csv", "output/a.csv", "output/b.csv">>

\* the file an OUTPUT_FILE: marker of the captured stdout refers to
MarkedPath(stdout) ==
    ReturnedFilePath(SkillDirectory, ReturnedFile(stdout, OutputFileMatch(stdout)))

MarkerApplies(d, x) ==
    /\ x.returncode = 0
    /\ x.diff = <<>>
    /\ OutputFileMatch(x.stdout) # 0
    /\ IsFile(d, MarkedPath(x.stdout))

\* C14: the marker counts only after exit code 0 with an empty diff; then a
\* referenced file that exists is the sole new file, and in every other case
\* the new-file list is the directory diff.
C14_MarkerOnlyAsFallback ==
    [][\A e \in DOMAIN execs :
          ComputesDiff(e) =>
              /\ execs'[e].pc = "done"
              /\ execs'[e].new_file_paths =
                     IF MarkerApplies(disk, execs'[e]) THEN <<MarkedPath(execs'[e].stdout)>>
                     ELSE execs'[e].diff]_vars

\* C15: once the process is spawned execute returns a result and never
\* raises; success is true exactly for exit code 0, and the result carries
\* the exit code, the captured stdout and the new-file list.
C15_ExecuteAlwaysReturns ==
    \A e \in DOMAIN execs :
        /\ execs[e].pc # "raised"
        /\ execs[e].pc = "done" =>
               /\ execs[e].success = (execs[e].returncode = 0)
               /\ execs[e].stdout = CapturedText(execs[e].raw.text)

\* C16: execute never calls an output handler and processed_outputs stays
\* empty in every result.
C16_NoHandlerInvoked ==
    \A e \in DOMAIN execs : ~execs[e].handed /\ execs[e].processed_outputs = <<>>

(***************************************************************************)
(* Direct calls of parse_parameters, parse_subcommands and infer_type on   *)
(* help texts put together from usage lines, option blocks and subcommand  *)
(* sections as argparse prints them.                                       *)
(***************************************************************************)
RECURSIVE Concat(_)
Concat(parts) == IF parts = <<>> THEN "" ELSE Head(parts) \o Concat(Tail(parts))

\* the sequences over a set with at most two elements
UpToTwo(S) == {<<>>} \cup {<<a>> : a \in S} \cup {<<a, b>> : a, b \in S}

UsageLines ==
    {"usage: s [-h] --year YEAR [--file FILE]",
     "usage: s [-h] [--year YEAR] [--file FILE] [--verbose]",
     "usage: s [-h] --item-ids ITEM_IDS [--mode {a,b}]",
     "Usage: s --year YEAR --file FILE",
     ""}

OptionBlocks ==
    {"  -h, --help\n          show this help\n",
     "  --year YEAR\n          Year to use\n",
     "  --file FILE\n          Input file\n",
     "  --file PATH_ID\n          Other (Required) input\n",
     "  --mode {a,b}\n          Mode\n",
     "  --item-ids ITEM_IDS\n          Ids of items\n",
     "  --item_ids FOO\n          A float (required)\n",
     "  --verbose   Say more\n",
     "  -h\n          short help\n"}

HelpOf(usage, blocks) == usage \o "\n\noptions:\n" \o Concat(blocks)

ParameterHelps == {HelpOf(usage, blocks) : usage \in UsageLines, blocks \in UpToTwo(OptionBlocks)}

SectionHeads == {"positional arguments:\n", "Positional Arguments:\n", "commands:\n"}

ChoiceLines == {"  {run,list}\n", "  command\n", ""}

SubcommandEntries ==
    {"    run         Run the job\n",
     "    list        List items  \n",
     "  sync  Too shallow\n",
     "    solo\n",
     "    run  Again\n"}

SectionEnds == {"", "\noptions:\n  -h, --help  show this help\n    late        After the section\n"}

SubcommandHelps ==
    {"usage: s [-h] {run,list} ...\n\n" \o head \o choice \o Concat(entries) \o end :
        head \in SectionHeads, choice \in ChoiceLines,
        entries \in UpToTwo(SubcommandEntries), end \in SectionEnds}

\* metavar "" stands for None
Metavars == {"", "YEAR", "FILE", "FILE_ID", "PATH_COUNT", "FOO", "WIDTH", "N", "Dir"}

Descriptions ==
    {"", "an integer value", "a float", "Enable it", "a decimal number",
     "true or a float", "plain text", "file name"}

ParseCalls ==
    {[fn |-> "parse_parameters", args |-> <<t>>, out |-> "", done |-> FALSE] : t \in ParameterHelps}
    \cup {[fn |-> "parse_subcommands", args |-> <<t>>, out |-> "", done |-> FALSE] :
              t \in SubcommandHelps}
    \cup {[fn |-> "infer_type", args |-> <<m, d>>, out |-> "", done |-> FALSE] :
              m \in Metavars, d \in Descriptions}

ParseParametersCall ==
    /\ parsed.fn = "parse_parameters" /\ ~parsed.done
    /\ parsed' = [parsed EXCEPT !.out = ParseParameters(parsed.args[1]), !.done = TRUE]
    /\ UNCHANGED <<skillVars, pipeVars, helpVars, scanVars, serverVars, verdict, build, overlapVars, execVars>>

ParseSubcommandsCall ==
    /\ parsed.fn = "parse_subcommands" /\ ~parsed.done
    /\ parsed' = [parsed EXCEPT !.out = ParseSubcommands(parsed.args[1]), !.done = TRUE]
    /\ UNCHANGED <<skillVars, pipeVars, helpVars, scanVars, serverVars, verdict, build, overlapVars, execVars>>

InferTypeCall ==
    /\ parsed.fn = "infer_type" /\ ~parsed.done
    /\ parsed' = [parsed EXCEPT !.out = InferType(parsed.args[1], parsed.args[2]), !.done = TRUE]
    /\ UNCHANGED <<skillVars, pipeVars, helpVars, scanVars, serverVars, verdict, build, overlapVars, execVars>>

InitParse ==
    /\ NoPipes
    /\ NoHelps
    /\ NoScan
    /\ entry = "python script.py"
    /\ fs = FsFull
    /\ script = [main |-> "", sub |-> <<>>]
    /\ ServerIdle
    /\ NoOverlap
    /\ NoExecutions
    /\ verdict = "none"
    /\ build = NoBuild
    /\ parsed \in ParseCalls

\* _build_command on the schema parse_parameters returned, with a value for
\* every parameter of it
BuildParsedCall ==
    /\ parsed.fn = "parse_parameters" /\ parsed.done /\ parsed.out.ok
    /\ ~build.done
    /\ build' = [template |-> "s",
                 schema |-> parsed.out.params,
                 parameters |-> [n \in {parsed.out.params[k].name :
                                           k \in 1..Len(parsed.out.params)} |-> StrVal("v")],
                 out |-> BuildCommand("s", parsed.out.params,
                             [n \in {parsed.out.params[k].name :
                                       k \in 1..Len(parsed.out.params)} |-> StrVal("v")]),
                 done |-> TRUE]
    /\ UNCHANGED <<skillVars, parseVars, pipeVars, helpVars, scanVars, serverVars, verdict,
                   overlapVars, execVars>>

NextParse ==
    \/ ParseParametersCall
    \/ ParseSubcommandsCall
    \/ InferTypeCall
    \/ BuildParsedCall

SpecParse == InitParse /\ [][NextParse]_vars

(***************************************************************************)
(* Claims about the help-text parsers (SpecParse).                         *)
(***************************************************************************)
ParametersReturned ==
    parsed.fn = "parse_parameters" /\ parsed.done /\ parsed.out.ok

HelpLines == StrSplit(parsed.args[1], "\n")

\* how many [...] groups are open at index i of s
BracketDepth(s, i) ==
    Cardinality({k \in 1..(i - 1) : Ch(s, k) = "["})
        - Cardinality({k \in 1..(i - 1) : Ch(s, k) = "]"})

\* the usage line shows --<flag> for this parameter outside every [...] group
FlagOutsideBrackets(usage, name) ==
    /\ StartsWith(usage, "usage:")
    /\ \E i \in 1..Len(usage) :
          /\ Slice(usage, i, i + 1) = "--"
          /\ StrReplace(Slice(usage, i + 2, i + 1 + Len(name)), "-", "_") = name
          /\ ~InChars(Ch(usage, i + 2 + Len(name)), FlagChars)
          /\ BracketDepth(usage, i) = 0

IsOptionLineOf(lines, k, name) ==
    OptionLine(lines[k]).matched /\ StrReplace(OptionLine(lines[k]).name, "-", "_") = name

\* the first option line that normalizes to this name
FirstOptionLine(lines, name) ==
    CHOOSE k \in 1..Len(lines) :
        IsOptionLineOf(lines, k, name) /\ \A n \in 1..(k - 1) : ~IsOptionLineOf(lines, n, name)

\* the description text of the option at line k, as printed
PrintedDescription(lines, k) == RawDescription(lines, k, SameLineDesc(lines[k]))

MarkedRequired(lines, name) ==
    LowerContains(PrintedDescription(lines, FirstOptionLine(lines, name)), "(required)")

\* C17: a parameter is required exactly when the usage line shows its flag
\* outside every bracket group or its description holds "(required)" in any
\* case, and the stored description no longer holds the marker.
C17_RequiredIffUnbracketedOrMarked ==
    ParametersReturned =>
        \A n \in 1..Len(parsed.out.params) :
            /\ parsed.out.params[n].required
                   <=> \/ FlagOutsideBrackets(HelpLines[1], parsed.out.params[n].name)
                       \/ MarkedRequired(HelpLines, parsed.out.params[n].name)
            /\ ~LowerContains(parsed.out.params[n].description, "(required)")

ParameterNames == {parsed.out.params[n].name : n \in 1..Len(parsed.out.params)}

\* C18: no returned parameter is named help or h; every name is the flag name
\* of an option line with hyphens turned into underscores; the names are
\* pairwise distinct, and type, required flag and description come from the
\* first option line that normalizes to the name.
C18_NamesNormalizedAndDistinct ==
    ParametersReturned =>
        /\ ParameterNames \cap {"help", "h"} = {}
        /\ Cardinality(ParameterNames) = Len(parsed.out.params)
        /\ \A n \in 1..Len(parsed.out.params) :
              /\ ~InChars("-", parsed.out.params[n].name)
              /\ \E k \in 1..Len(HelpLines) :
                     IsOptionLineOf(HelpLines, k, parsed.out.params[n].name)
              /\ parsed.out.params[n].description =
                     CleanDescription(PrintedDescription(HelpLines,
                         FirstOptionLine(HelpLines, parsed.out.params[n].name)))
              /\ parsed.out.params[n].type =
                     InferType(OptionLine(HelpLines[FirstOptionLine(HelpLines,
                                   parsed.out.params[n].name)]).metavar,
                               parsed.out.params[n].description)
              /\ parsed.out.params[n].required
                     <=> \/ parsed.out.params[n].name \in RequiredFromUsage(HelpLines[1])
                         \/ MarkedRequired(HelpLines, parsed.out.params[n].name)

C18_Witness ==
    /\ ParametersReturned
    /\ Cardinality({k \in 1..Len(HelpLines) : IsOptionLineOf(HelpLines, k, "item_ids")}) = 2
    /\ OptionLine(HelpLines[FirstOptionLine(HelpLines, "item_ids")]).name = "item_ids"
    /\ parsed.out.params =
           <<SkillParameter("item_ids", TRUE, "float", "A float")>>

TypeInferred == parsed.fn = "infer_type" /\ parsed.done

\* the text holds one of the words, in any letter case
Mentions(text, words) == \E w \in words : LowerContains(text, w)

IntPlaceholder == Mentions(parsed.args[1], {"year", "count", "num", "id", "port", "size"})
StringPlaceholder == Mentions(parsed.args[1], {"file", "path", "name", "dir", "url", "string"})

\* the rule the claim lists first among those that match
FirstMatchingRule ==
    CASE parsed.args[1] = "" -> "bool"
      [] parsed.args[1] # "" /\ IntPlaceholder -> "int"
      [] parsed.args[1] # "" /\ ~IntPlaceholder /\ StringPlaceholder -> "string"
      [] OTHER ->
            IF Mentions(parsed.args[2], {"integer", "number"}) THEN "int"
            ELSE IF Mentions(parsed.args[2], {"float", "decimal"}) THEN "float"
            ELSE IF Mentions(parsed.args[2], {"true", "false", "enable", "disable"}) THEN "bool"
            ELSE "string"

\* C19: infer_type returns the type of the first rule that matches, in the
\* order: no placeholder (bool), int placeholder words, string placeholder
\* words, int, float, bool description words, string; so a placeholder rule
\* overrides the description and the int placeholder words override the
\* string placeholder words.
C19_FirstMatchingRuleWins ==
    TypeInferred =>
        /\ parsed.out = FirstMatchingRule
        /\ (parsed.args[1] # "" /\ (IntPlaceholder \/ StringPlaceholder)) =>
               parsed.out = (IF IntPlaceholder THEN "int" ELSE "string")

C19_Witness ==
    /\ TypeInferred
    /\ parsed.args = <<"FILE_ID", "a float">>
    /\ parsed.out = "int"

SubcommandsParsed == parsed.fn = "parse_subcommands" /\ parsed.done

IsSectionHead(line) == LowerContains(line, "positional arguments:")

\* the line that opens the positional arguments section, 0 without one
SectionHead(lines) ==
    IF \E k \in 1..Len(lines) : IsSectionHead(lines[k])
    THEN CHOOSE k \in 1..Len(lines) :
             IsSectionHead(lines[k]) /\ \A n \in 1..(k - 1) : ~IsSectionHead(lines[n])
    ELSE 0

EndsSection(lines, k) ==
    lines[k] # "" /\ ~StartsWith(lines[k], " ") /\ ~IsSectionHead(lines[k])

\* the lines of the section that come after a line with a choice list
AfterChoices(lines) ==
    {k \in 1..Len(lines) :
        /\ SectionHead(lines) # 0
        /\ \A n \in (SectionHead(lines) + 1)..k : ~EndsSection(lines, n)
        /\ \E c \in (SectionHead(lines) + 1)..(k - 1) : HasChoices(lines[c])}

\* the lines a pair may come from
EntryLines(lines) == {k \in AfterChoices(lines) : SubcommandLine(lines[k]).matched}

\* C20: without a positional arguments section the mapping is empty;
\* otherwise its pairs are those of the entry lines (4 or more leading
\* spaces, a name, 2 or more spaces, a description) after the line with the
\* choice list and before the line that ends the section.
C20_SubcommandsOnlyFromSection ==
    SubcommandsParsed =>
        /\ SectionHead(HelpLines) = 0 => parsed.out = NoSubcommands
        /\ DOMAIN parsed.out.desc =
               {SubcommandLine(HelpLines[k]).name : k \in EntryLines(HelpLines)}
        /\ \A name \in DOMAIN parsed.out.desc :
               \E k \in EntryLines(HelpLines) :
                   /\ SubcommandLine(HelpLines[k]).name = name
                   /\ SubcommandLine(HelpLines[k]).desc = parsed.out.desc[name]

C20_Witness ==
    /\ SubcommandsParsed
    /\ parsed.out.names = <<"run", "list">>
    /\ \E k \in 1..Len(HelpLines) :
           SubcommandLine(HelpLines[k]).matched /\ SubcommandLine(HelpLines[k]).name = "late"

\* C21: parse_parameters is total: on every help text it returns a list of
\* parameters and raises no error.
C21_ParseParametersTotal ==
    (parsed.fn = "parse_parameters" /\ parsed.done) => parsed.out.ok

(***************************************************************************)
(* Two executions of the same skill directory in flight (SpecRace): the    *)
(* actions of SpecExec on two slots; the executor holds no lock.           *)
(***************************************************************************)
RaceNames == {"a.csv", "b.csv"}

RaceOutputs == {[text |-> "done\n", utf8 |-> TRUE]}

InitRace ==
    /\ NoPipes
    /\ NoHelps
    /\ NoScan
    /\ NoParse
    /\ entry = "python script.py"
    /\ fs = FsFull
    /\ script = [main |-> "", sub |-> <<>>]
    /\ ServerIdle
    /\ NoOverlap
    /\ verdict = "none"
    /\ build = NoBuild
    /\ disk \in {DiskNoOutput, DiskOldOutput}
    /\ execs = <<NotStarted, NotStarted>>
    /\ output_handler = CreateServerHandler("None")

NextRace ==
    \/ \E e \in DOMAIN execs : ExecStart(e)
    \/ \E e \in DOMAIN execs : \E name \in RaceNames : ProcessWrite(e, name)
    \/ \E e \in DOMAIN execs : \E name \in RaceNames : ProcessDelete(e, name)
    \/ \E e \in DOMAIN execs : \E raw \in RaceOutputs : ProcessExit(e, 0, raw)
    \/ \E e \in DOMAIN execs : ExecCollect(e)

SpecRace == InitRace /\ [][NextRace]_vars

\* C22: executions of one skill directory overlap, and a file another run's
\* script created after this run's snapshot and that is there at this run's
\* listing is reported among this run's new files.
C22_OtherRunsFilesReported ==
    \A e \in DOMAIN execs : \A o \in DOMAIN execs \ {e} :
        execs[e].pc = "done" =>
            \A p \in execs[o].wrote :
                (p \notin execs[e].before /\ p \in execs[e].after) =>
                    \E k \in 1..Len(execs[e].new_file_paths) : execs[e].new_file_paths[k] = p

C22_Witness ==
    /\ execs[1].pc = "done"
    /\ execs[2].pc = "running"
    /\ execs[1].wrote = {}
    /\ execs[2].wrote = {SkillDirectory \o <<"output", "a.csv">>}
    /\ execs[1].output_files = <<"output/a.csv">>
    /\ execs[1].handed

(***************************************************************************)
(* Further claims about execute and the server (Spec).                     *)
(***************************************************************************)
RequiredOf(cmd) ==
    {cmd.parameters[k].name : k \in {k \in 1..Len(cmd.parameters) : cmd.parameters[k].required}}

\* the command line holds --<flag> followed by one more token
HasFlagWithValue(cmd, name) ==
    \E i \in 1..(Len(ShlexSplit(cmd).toks) - 1) :
        ShlexSplit(cmd).toks[i] = "--" \o StrReplace(name, "_", "-")

\* C23: every command line execute hands to the shell holds, for each
\* required parameter of the invoked command, its --flag followed by a value.
C23_RequiredFlagsPresent ==
    pc = "running" =>
        \A s \in spawned :
            s.kind = "run" =>
                \A name \in RequiredOf(commands[req.command]) : HasFlagWithValue(s.cmd, name)

\* the run_skill call at hand gives no command argument
CommandOmitted == pc = "dispatch" /\ req.tool = "run_skill" /\ req.command = ""

\* C25: a run_skill call without a command argument runs the default
\* command: it is checked and spawned as a call naming "default" would be.
C25_OmittedCommandRunsDefault ==
    [][(CommandOmitted /\ pc' # pc) =>
           IF ExecuteChecks("default", req.parameters) = "ok"
           THEN /\ pc' = "running"
                /\ [kind |-> "run",
                    cmd |-> BuildCommand(commands["default"].bash_template,
                                         commands["default"].parameters,
                                         req.parameters)] \in spawned'
           ELSE /\ reply'.kind = "error"
                /\ reply'.text = ExecuteChecks("default", req.parameters)]_vars

(***************************************************************************)
(* The readers of _execute_subprocess (SpecPipes).  The child writes its   *)
(* lines to two pipes of bounded capacity and blocks on a full pipe; it    *)
(* closes both when it exits.  read_stream runs once per pipe, both under  *)
(* asyncio.gather; the result is assembled after the gather and            *)
(* process.wait().                                                         *)
(***************************************************************************)
MaxOutput == 3
PipeCapacity == 1

Streams == {"stdout", "stderr"}

\* the orders in which a child may write up to MaxOutput lines to its streams
WritePlans == UNION {[1..n -> Streams] : n \in 0..MaxOutput}

ChildStarted(plan) ==
    [plan |-> plan, total |-> Len(plan),
     buffered |-> [s \in Streams |-> 0],
     lines |-> [s \in Streams |-> 0],
     eof |-> [s \in Streams |-> FALSE],
     exited |-> FALSE, assembled |-> FALSE]

\* a reader that waits for the stdout reader to finish before it reads stderr
ReaderRunsAfterStdout(stream) ==
    ~pipes.eof[stream] /\ (stream = "stderr" => pipes.eof["stdout"])

\* asyncio.gather runs both read_stream coroutines: each reads whenever its
\* pipe has something for it
ReaderRuns(stream) == ~pipes.eof[stream]

\* the child writes its next line; it blocks while that pipe is full
ChildWrite ==
    /\ pipes.plan # <<>>
    /\ pipes.buffered[Head(pipes.plan)] < PipeCapacity
    /\ pipes' = [pipes EXCEPT !.plan = Tail(@), !.buffered[Head(pipes.plan)] = @ + 1]
    /\ UNCHANGED <<skillVars, parseVars, helpVars, scanVars, serverVars, verdict, build,
                   overlapVars, execVars>>

\* the child has written everything and exits; its ends of the pipes close
ChildExit ==
    /\ pipes.plan = <<>>
    /\ ~pipes.exited
    /\ pipes' = [pipes EXCEPT !.exited = TRUE]
    /\ UNCHANGED <<skillVars, parseVars, helpVars, scanVars, serverVars, verdict, build,
                   overlapVars, execVars>>

\* stream.readline() returns a line
ReadLine(stream) ==
    /\ ReaderRuns(stream)
    /\ pipes.buffered[stream] > 0
    /\ pipes' = [pipes EXCEPT !.buffered[stream] = @ - 1, !.lines[stream] = @ + 1]
    /\ UNCHANGED <<skillVars, parseVars, helpVars, scanVars, serverVars, verdict, build,
                   overlapVars, execVars>>

\* stream.readline() returns b"": the pipe is empty and closed
ReadEof(stream) ==
    /\ ReaderRuns(stream)
    /\ pipes.buffered[stream] = 0
    /\ pipes.exited
    /\ pipes' = [pipes EXCEPT !.eof[stream] = TRUE]
    /\ UNCHANGED <<skillVars, parseVars, helpVars, scanVars, serverVars, verdict, build,
                   overlapVars, execVars>>

\* the gather and process.wait() have returned: the result is assembled
Assemble ==
    /\ \A s \in Streams : pipes.eof[s]
    /\ pipes.exited
    /\ ~pipes.assembled
    /\ pipes' = [pipes EXCEPT !.assembled = TRUE]
    /\ UNCHANGED <<skillVars, parseVars, helpVars, scanVars, serverVars, verdict, build,
                   overlapVars, execVars>>

InitPipes ==
    /\ NoParse
    /\ NoHelps
    /\ NoScan
    /\ entry = "python script.py"
    /\ fs = FsFull
    /\ script = [main |-> "", sub |-> <<>>]
    /\ ServerIdle
    /\ NoOverlap
    /\ NoExecutions
    /\ verdict = "none"
    /\ build = NoBuild
    /\ pipes \in {ChildStarted(plan) : plan \in WritePlans}

NextPipes ==
    \/ ChildWrite
    \/ ChildExit
    \/ \E s \in Streams : ReadLine(s)
    \/ \E s \in Streams : ReadEof(s)
    \/ Assemble

\* the event loop runs every ready coroutine, and the child runs on its own
PipesFairness ==
    /\ WF_vars(ChildWrite)
    /\ WF_vars(ChildExit)
    /\ \A s \in Streams : WF_vars(ReadLine(s)) /\ WF_vars(ReadEof(s))
    /\ WF_vars(Assemble)

SpecPipes == InitPipes /\ [][NextPipes]_vars /\ PipesFairness

MainCall == "-h"

NotCalled == [at |-> "pending", returncode |-> 0, stdout |-> "", child |-> "none", code |-> 0]

\* the help text the script prints for the invocation c
HelpTextOf(c) == IF c = MainCall THEN script.main ELSE script.sub[c]

\* the results of the gather, by subcommand
GatherResults(calls) == [n \in DOMAIN calls \ {MainCall} |-> calls[n]]

DiscoverReturns(calls, found) ==
    helps' = [pc |-> "returned", calls |-> calls, out |-> found]

DiscoverRaises(calls) ==
    helps' = [pc |-> "raised", calls |-> calls, out |-> NoCommands]

\* discover_commands after the top-level run_command has returned result
DiscoverAfterMain(calls, result) ==
    IF HelpFailed(result) THEN DiscoverReturns(calls, NoCommands)
    ELSE IF SubcommandsOf[result.stdout].names = <<>>
    THEN IF ParametersOf[result.stdout].ok
         THEN DiscoverReturns(calls, [n \in {"default"} |->
                  SkillCommand("default", "", entry, ParametersOf[result.stdout].params)])
         ELSE DiscoverRaises(calls)
    ELSE helps' = [pc |-> "gather",
                   calls |-> [c \in DOMAIN calls \cup DOMAIN SubcommandsOf[result.stdout].desc |->
                                 IF c \in DOMAIN calls THEN calls[c] ELSE NotCalled],
                   out |-> NoCommands]

\* discover_commands after the gather: the loop over zip(subcommands, results)
DiscoverAfterGather(calls, assembled) ==
    IF assembled.ok THEN DiscoverReturns(calls, assembled.commands) ELSE DiscoverRaises(calls)

\* run_command has returned in the invocation c, which leaves calls: the
\* caller goes on to its next await
RunCommandReturned(c, calls) ==
    IF c = MainCall THEN DiscoverAfterMain(calls, calls[c])
    ELSE IF \A n \in DOMAIN calls : calls[n].at = "returned"
    THEN DiscoverAfterGather(calls, AssembleCommands(SubcommandsOf[calls[MainCall].stdout],
                                                      GatherResults(calls)))
    ELSE helps' = [helps EXCEPT !.calls = calls]

HelpIdle == UNCHANGED <<skillVars, parseVars, pipeVars, scanVars, serverVars, verdict, build,
                        overlapVars, execVars>>

\* create_subprocess_shell starts the shell child of the invocation c
CreateSubprocess(c) ==
    /\ helps.pc \in {"main", "gather"}
    /\ helps.calls[c].at = "pending"
    /\ helps' = [helps EXCEPT !.calls[c].at = "communicate", !.calls[c].child = "running"]
    /\ HelpIdle

\* create_subprocess_shell raises: `except Exception` returns returncode -1
CreateFails(c) ==
    /\ helps.pc \in {"main", "gather"}
    /\ helps.calls[c].at = "pending"
    /\ RunCommandReturned(c, [helps.calls EXCEPT ![c].at = "returned", ![c].returncode = -1])
    /\ HelpIdle

\* the script of the invocation c ends with the exit code code, whether or not
\* anything still waits for it
ChildEnds(c, code) ==
    /\ helps.calls[c].child = "running"
    /\ helps' = [helps EXCEPT !.calls[c].child = "exited", !.calls[c].code = code]
    /\ HelpIdle

\* communicate() returns within the timeout: the child has ended
CommunicateReturns(c) ==
    /\ helps.pc \in {"main", "gather"}
    /\ helps.calls[c].at = "communicate"
    /\ helps.calls[c].child = "exited"
    /\ RunCommandReturned(c, [helps.calls EXCEPT
            ![c].at = "returned",
            ![c].returncode = helps.calls[c].code,
            ![c].stdout = IF helps.calls[c].code = 0 THEN HelpTextOf(c) ELSE ""])
    /\ HelpIdle

\* asyncio.wait_for gives up on communicate(): `except asyncio.TimeoutError`
\* returns returncode -1; nothing is sent to the child
TimeoutExpires(c) ==
    /\ helps.pc \in {"main", "gather"}
    /\ helps.calls[c].at = "communicate"
    /\ helps.calls[c].child = "running"
    /\ RunCommandReturned(c, [helps.calls EXCEPT ![c].at = "returned", ![c].returncode = -1])
    /\ HelpIdle

InitHelp ==
    /\ NoPipes
    /\ NoScan
    /\ NoParse
    /\ entry = "python script.py"
    /\ fs = FsFull
    /\ script \in Scripts
    /\ ServerIdle
    /\ NoOverlap
    /\ NoExecutions
    /\ verdict = "none"
    /\ build = NoBuild
    /\ helps = [pc |-> "main", calls |-> [c \in {MainCall} |-> NotCalled], out |-> NoCommands]

NextHelp ==
    \/ \E c \in DOMAIN helps.calls : CreateSubprocess(c)
    \/ \E c \in DOMAIN helps.calls : CreateFails(c)
    \/ \E c \in DOMAIN helps.calls, code \in {0, 1} : ChildEnds(c, code)
    \/ \E c \in DOMAIN helps.calls : CommunicateReturns(c)
    \/ \E c \in DOMAIN helps.calls : TimeoutExpires(c)

SpecHelp == InitHelp /\ [][NextHelp]_vars

\* C26: once discover_commands has returned, none of the processes its
\* run_command calls started is still running, a timed-out one included.
C26_NoChildOutlivesDiscovery ==
    helps.pc = "returned" => \A c \in DOMAIN helps.calls : helps.calls[c].child # "running"


\* C27: every path in a returned ExecutionResult's new-file list, the list
\* execute hands to the output handler, lies inside the skill directory,
\* also when it comes from an OUTPUT_FILE: marker.
C27_NewFilesInsideSkillDirectory ==
    \A e \in DOMAIN execs :
        execs[e].pc = "done" =>
            \A k \in 1..Len(execs[e].new_file_paths) :
                IsRelativeTo(ResolveFrom(disk, <<>>, execs[e].new_file_paths[k]),
                             SkillDirectory)


\* C28: when refresh_commands calls overlap, the mapping one of them stored
\* is never replaced by the result of a discovery that started earlier, and
\* the cached-at time never decreases.
C28_NoStaleOverwrite ==
    [][/\ current' # current =>
              \/ heap[current].by = 0
              \/ handlers[heap[current].by].now <= handlers[heap'[current'].by].now
       /\ cacheTime.set => (cacheTime'.set /\ cacheTime'.at >= cacheTime.at)]_vars


\* the flag as the option line of this parameter spells it, dashes included
DeclaredFlag(lines, name) ==
    "--" \o OptionLine(lines[FirstOptionLine(lines, name)]).name

\* C29: for every parameter parse_parameters extracted from an option line
\* declaring --X, the command line _build_command builds passes the value
\* under exactly --X.
C29_FlagSpellingRoundTrips ==
    (ParametersReturned /\ build.done) =>
        \A n \in 1..Len(parsed.out.params) :
            \E k \in 1..(Len(ShlexSplit(build.out).toks) - 1) :
                /\ ShlexSplit(build.out).toks[k]
                       = DeclaredFlag(HelpLines, parsed.out.params[n].name)
                /\ ShlexSplit(build.out).toks[k + 1] = "v"


(***************************************************************************)
(* The scanning loop of parse_parameters, one iteration at a time          *)
(* (SpecScan).  scan holds the locals of the call: lines, required_params, *)
(* i, j (0 while unbound), param_names_seen and parameters, all with       *)
(* 1-based line indices.  For the properties it also remembers the line    *)
(* each parameter came from and whether an iteration began on a line that  *)
(* an earlier iteration had begun on.                                      *)
(***************************************************************************)
\* what the loop body finds on line k: the option match, the normalized name
\* and the parameter of the line, and where its continuation lines end (0 for
\* a description on the same line, which leaves j as it is).  It depends on
\* the text alone and is worked out once per line.
LineFound(lines, k, required_params, m, same) ==
    IF m.matched
    THEN [matched |-> TRUE, name |-> StrReplace(m.name, "-", "_"),
          opt |-> ParseOption(lines, k, required_params, 0, m, same,
                              RawDescription(lines, k, same))]
    ELSE [matched |-> FALSE, name |-> "", opt |-> [j |-> 0]]

LinesFound(lines, required_params) ==
    [k \in 1..Len(lines) |->
        LineFound(lines, k, required_params, OptionLine(lines[k]), SameLineDesc(lines[k]))]

ScanStart(lines) ==
    [pc |-> "loop", lines |-> lines, required_params |-> RequiredFromUsage(lines[1]),
     found |-> LinesFound(lines, RequiredFromUsage(lines[1])),
     i |-> 1, j |-> 0, seen |-> {}, parameters |-> <<>>,
     sources |-> <<>>, visited |-> {}, revisited |-> FALSE]

\* a loop that never records the names it has added
SeenForgotten(seen, param_name) == seen

\* param_names_seen.add(param_name)
SeenAfter(seen, param_name) == seen \cup {param_name}

\* the iteration begins on line s.i
ScanVisit(s) ==
    [s EXCEPT !.visited = @ \cup {s.i}, !.revisited = @ \/ s.i \in s.visited]

\* the option of line s.i is appended; `i = j` ends the iteration, with the
\* UnboundLocalError while j is unbound
ScanAdd(s, param, j) ==
    IF j = 0
    THEN [ScanVisit(s) EXCEPT !.pc = "raised"]
    ELSE [ScanVisit(s) EXCEPT !.i = j, !.j = j,
                              !.seen = SeenAfter(s.seen, param.name),
                              !.parameters = Append(@, param),
                              !.sources = Append(@, s.i)]

\* the body of the while loop on line s.i, given what the line holds
ScanBody(s, line) ==
    IF ~line.matched \/ line.name \in {"help", "h"} \cup s.seen
    THEN [ScanVisit(s) EXCEPT !.i = @ + 1]
    ELSE ScanAdd(s, line.opt.param, IF line.opt.j = 0 THEN s.j ELSE line.opt.j)

ScanIdle == UNCHANGED <<skillVars, parseVars, pipeVars, helpVars, serverVars, verdict, build,
                        overlapVars, execVars>>

\* one iteration of `while i < len(lines)`
ScanIteration ==
    /\ scan.pc = "loop"
    /\ scan.i <= Len(scan.lines)
    /\ scan' = ScanBody(scan, scan.found[scan.i])
    /\ ScanIdle

\* the loop condition fails: `return parameters`
ScanReturn ==
    /\ scan.pc = "loop"
    /\ scan.i > Len(scan.lines)
    /\ scan' = [scan EXCEPT !.pc = "returned"]
    /\ ScanIdle

InitScan ==
    /\ NoPipes
    /\ NoHelps
    /\ NoParse
    /\ entry = "python script.py"
    /\ fs = FsFull
    /\ script = [main |-> "", sub |-> <<>>]
    /\ ServerIdle
    /\ NoOverlap
    /\ NoExecutions
    /\ verdict = "none"
    /\ build = NoBuild
    /\ scan \in {ScanStart(StrSplit(t, "\n")) : t \in ParameterHelps}

NextScan ==
    \/ ScanIteration
    \/ ScanReturn

\* a call that has started runs on: nothing in the loop awaits
ScanFairness == WF_vars(ScanIteration) /\ WF_vars(ScanReturn)

SpecScan == InitScan /\ [][NextScan]_vars /\ ScanFairness

\* C30: the scanning loop of parse_parameters ends on every help text, by
\* returning or by raising, also when `i = j` puts the index back on a line
\* already scanned; no line yields more than one parameter.
C30_ScanTerminates ==
    /\ <>(scan.pc # "loop")
    /\ [](\A a, b \in 1..Len(scan.sources) : a # b => scan.sources[a] # scan.sources[b])

C30_Witness ==
    /\ scan.pc = "returned"
    /\ scan.revisited
    /\ Len(scan.parameters) = 2
    /\ scan.sources = <<4, 6>>

ScanAgreesWithLoop ==
    scan.pc # "loop" =>
        /\ ParseParametersOf(scan.lines).ok = (scan.pc = "returned")
        /\ scan.pc = "returned" => ParseParametersOf(scan.lines).params = scan.parameters
====
